---------------------------- MODULE Spec2Model ----------------------------
(***************************************************************************)
(* The peer-to-peer wire-message codec of rippled: the varint size prefix,  *)
(* the LZ4-frame wrapper, the 6-byte wire header, the outbound Message      *)
(* (lazy, cached compression) and the inbound invokeProtocolMessage.        *)
(* Bytes are naturals 0..255, buffers are sequences of bytes.               *)
(***************************************************************************)
EXTENDS Integers, Sequences, FiniteSets, TLC

(***************************************************************************)
(* Bounds of the model                                                      *)
(***************************************************************************)
\* payload lengths explored above the 70-byte compression threshold
MaxOver == 2
\* number of threads calling getBuffer on one Message
NumThreads == 2
\* getBuffer calls each thread makes
MaxCalls == 2
\* segment boundaries are placed within the first MaxCut bytes of a buffer
MaxCut == 11
\* at most MaxSegs segments per scatter-gather buffer
MaxSegs == 3

\* the values 0..MaxSmallValue are given to write_varint
MaxSmallValue == 300

\* the byte strings up to this length are given to read_varint
MaxRawLen == 3

\* a forged varint prefix is at most this far from the size of the payload
MaxSkew == 1

\* the reads that append bytes to a connection's buffer
MaxAppends == 2

(***************************************************************************)
(* Bit and byte helpers (C++ unsigned arithmetic)                           *)
(***************************************************************************)
Pow2(n) == 2 ^ n

Min(a, b) == IF a <= b THEN a ELSE b

\* x >> n
Shr(x, n) == x \div Pow2(n)

\* x & 0xFF
Lo8(x) == x % 256

\* the element of a one-element set: Only({e : x \in {v}}) is e with x bound to
\* the value of v
Only(S) == CHOOSE v \in S : TRUE

RECURSIVE BitAnd(_, _)
BitAnd(x, y) ==
    IF x = 0 \/ y = 0 THEN 0
    ELSE (x % 2) * (y % 2) + 2 * BitAnd(x \div 2, y \div 2)

RECURSIVE BitOr(_, _)
BitOr(x, y) ==
    IF x = 0 THEN y
    ELSE IF y = 0 THEN x
    ELSE (IF (x % 2) + (y % 2) > 0 THEN 1 ELSE 0) + 2 * BitOr(x \div 2, y \div 2)

\* std::vector<uint8_t>(n): n value-initialised bytes
Zeros(n) == [i \in 1..n |-> 0]

\* n copies of byte b
Rep(b, n) == [i \in 1..n |-> b]

\* s[from..to], empty when from > to
Slice(s, from, to) == SubSeq(s, from, to)

\* the bytes after the first n
Drop(s, n) == SubSeq(s, n + 1, Len(s))

\* the first n bytes
Take(s, n) == SubSeq(s, 1, Min(n, Len(s)))

RECURSIVE Flatten(_)
Flatten(segs) ==
    IF segs = <<>> THEN <<>> ELSE Head(segs) \o Flatten(Tail(segs))

(***************************************************************************)
(* 64-bit std::size_t values that may leave the model's integer range are   *)
(* held as four 16-bit limbs, least significant first.                      *)
(***************************************************************************)
LimbBase == 65536

SizeT(n) == <<n % LimbBase, (n \div LimbBase) % LimbBase, 0, 0>>

\* (t * m + a) mod 2^64, for m, a < 2^15
RECURSIVE LimbMulAdd(_, _, _, _)
LimbMulAdd(t, m, a, i) ==
    IF i > 4 THEN <<>>
    ELSE LET x == t[i] * m + a
         IN  <<x % LimbBase>> \o LimbMulAdd(t, m, x \div LimbBase, i + 1)

RECURSIVE LimbLeFrom(_, _, _)
LimbLeFrom(a, b, i) ==
    IF i = 0 THEN TRUE
    ELSE IF a[i] < b[i] THEN TRUE
    ELSE IF a[i] > b[i] THEN FALSE
    ELSE LimbLeFrom(a, b, i - 1)

\* a <= b
LimbLe(a, b) == LimbLeFrom(a, b, 4)

\* the limbs 1..i of t divided by m < 2^15, with r carried in from the limbs
\* above: [q |-> quotient limbs, r |-> remainder]
RECURSIVE LimbDivFrom(_, _, _, _)
LimbDivFrom(t, m, i, r) ==
    IF i = 0 THEN [q |-> <<>>, r |-> r]
    ELSE LET cur == r * LimbBase + t[i]
             rest == LimbDivFrom(t, m, i - 1, cur % m)
         IN  [q |-> Append(rest.q, cur \div m), r |-> rest.r]

\* the value fits the model's integers (below 2^31)
LimbSmall(a) == a[4] = 0 /\ a[3] = 0 /\ a[2] < 32768

LimbInt(a) == a[1] + LimbBase * a[2]

\* UINT32_MAX as a std::size_t
UINT32_MAX == <<65535, 65535, 0, 0>>

(***************************************************************************)
(* varint_common.h                                                          *)
(***************************************************************************)
\* varint_traits<std::uint32_t>::max = (8 * sizeof(T) + 6) / 7
varint_max == (8 * 4 + 6) \div 7

\* write_varint with the continuation bit set on every byte
RECURSIVE write_varint_AlwaysContinues(_)
write_varint_AlwaysContinues(v) ==
    LET dr == LimbDivFrom(v, 127, 4, 0)
    IN  IF dr.q # SizeT(0)
        THEN <<BitOr(dr.r, 128)>> \o write_varint_AlwaysContinues(dr.q)
        ELSE <<BitOr(dr.r, 128)>>

\* write_varint: the bytes written (their count is the return value), for a
\* 64-bit std::size_t v: do { d = v % 127; v /= 127; if (v != 0) d |= 0x80;
\* *p++ = d; } while (v != 0)
RECURSIVE write_varint(_)
write_varint(v) ==
    LET dr == LimbDivFrom(v, 127, 4, 0)
    IN  IF dr.q # SizeT(0)
        THEN <<BitOr(dr.r, 128)>> \o write_varint(dr.q)
        ELSE <<dr.r>>

\* first loop of read_varint, while (p[n] & 0x80) if (++n >= buflen) return 0:
\* the 0-based index n of the first byte with a clear high bit
RECURSIVE varint_scan(_, _, _)
varint_scan(p, buflen, n) ==
    IF BitAnd(p[n + 1], 128) # 0
    THEN IF n + 1 >= buflen THEN [ok |-> FALSE, n |-> n + 1]
         ELSE varint_scan(p, buflen, n + 1)
    ELSE [ok |-> TRUE, n |-> n]

\* the second loop of read_varint with t *= 128
RECURSIVE varint_accum_Base128(_, _, _)
varint_accum_Base128(p, n, t) ==
    IF n = 0 THEN [ok |-> TRUE, t |-> t]
    ELSE LET d == p[n]
             t1 == LimbMulAdd(t, 128, BitAnd(d, 127), 1)
         IN  IF LimbLe(t1, t) THEN [ok |-> FALSE, t |-> t1]
             ELSE varint_accum_Base128(p, n - 1, t1)

\* second loop of read_varint: while (n--) { t0 = t; t *= 127; t += d & 0x7f;
\* if (t <= t0) return 0; } over a 64-bit std::size_t
RECURSIVE varint_accum(_, _, _)
varint_accum(p, n, t) ==
    IF n = 0 THEN [ok |-> TRUE, t |-> t]
    ELSE LET d == p[n]
             t1 == LimbMulAdd(t, 127, BitAnd(d, 127), 1)
         IN  IF LimbLe(t1, t) THEN [ok |-> FALSE, t |-> t1]
             ELSE varint_accum(p, n - 1, t1)

\* read_varint without the special case for 0
read_varint_NoZeroCase(p, buflen) ==
    LET s == varint_scan(p, buflen, 0)
        n == s.n + 1
    IN  IF ~s.ok THEN [n |-> 0, t |-> SizeT(0)]
        ELSE IF n > buflen THEN [n |-> 0, t |-> SizeT(0)]
        ELSE LET a == varint_accum(p, n, SizeT(0))
             IN  IF a.ok THEN [n |-> n, t |-> a.t] ELSE [n |-> 0, t |-> a.t]

\* read_varint returning the bytes scanned when the buffer ends in the varint
read_varint_ShortIsCount(p, buflen) ==
    LET s == varint_scan(p, buflen, 0)
        n == s.n + 1
    IN  IF ~s.ok THEN [n |-> s.n, t |-> SizeT(0)]
        ELSE IF n > buflen THEN [n |-> s.n, t |-> SizeT(0)]
        ELSE IF n = 1 /\ p[1] = 0 THEN [n |-> 1, t |-> SizeT(0)]
        ELSE LET a == varint_accum(p, n, SizeT(0))
             IN  IF a.ok THEN [n |-> n, t |-> a.t] ELSE [n |-> 0, t |-> a.t]

\* read_varint(buf, buflen, t): [n |-> bytes consumed or 0, t |-> value]
read_varint(p, buflen) ==
    LET s == varint_scan(p, buflen, 0)
        n == s.n + 1
    IN  IF ~s.ok THEN [n |-> 0, t |-> SizeT(0)]
        ELSE IF n > buflen THEN [n |-> 0, t |-> SizeT(0)]
        ELSE IF n = 1 /\ p[1] = 0 THEN [n |-> 1, t |-> SizeT(0)]
        ELSE LET a == varint_accum(p, n, SizeT(0))
             IN  IF a.ok THEN [n |-> n, t |-> a.t] ELSE [n |-> 0, t |-> a.t]

(***************************************************************************)
(* The LZ4 frame library (lz4frame.h), seen through the calls the codec     *)
(* makes.  A frame is the magic number, blocks and an end mark.  A block is *)
(* a token t and its data: t > 128 is followed by t - 128 literal bytes,    *)
(* 1 <= t <= 127 by one byte that is repeated t times (a match); t = 0 is   *)
(* the end mark.  This block coding stands for the LZ4 block format.        *)
(***************************************************************************)
LZ4F_MAGIC == <<4, 34, 77, 24>>

LZ4F_ENDMARK == 0

LZ4F_MAXBLOCK == 127

LZ4F_MINMATCH == 3

\* the length of the run of equal bytes at the head of s, at most LZ4F_MAXBLOCK
RunLen(s) ==
    LET lim == Min(Len(s), LZ4F_MAXBLOCK)
        same == {k \in 1..lim : \A i \in 1..k : s[i] = s[1]}
    IN  CHOOSE k \in same : \A j \in same : j <= k

\* the number of literal bytes at the head of s: up to the next match
LitLen(s) ==
    LET lim == Min(Len(s), LZ4F_MAXBLOCK)
        stop == {k \in 1..lim :
                    \/ k = lim
                    \/ /\ k + LZ4F_MINMATCH <= Len(s)
                       /\ \A i \in 1..(LZ4F_MINMATCH - 1) : s[k + 1 + i] = s[k + 1]}
    IN  CHOOSE k \in stop : \A j \in stop : k <= j

RECURSIVE LZ4F_blocks(_)
LZ4F_blocks(s) ==
    IF s = <<>> THEN <<>>
    ELSE IF RunLen(s) >= LZ4F_MINMATCH
    THEN <<RunLen(s), s[1]>> \o LZ4F_blocks(Drop(s, RunLen(s)))
    ELSE <<128 + LitLen(s)>> \o Take(s, LitLen(s)) \o LZ4F_blocks(Drop(s, LitLen(s)))

\* LZ4F_compressFrameBound(srcSize, nullptr)
LZ4F_compressFrameBound(n) ==
    Len(LZ4F_MAGIC) + n + (n \div LZ4F_MAXBLOCK) + 2

\* LZ4F_compressFrame(dst, dstCapacity, src, srcSize, nullptr):
\* the frame written, or an error when the capacity is too small
LZ4F_compressFrame(dstCapacity, src) ==
    LET frame == LZ4F_MAGIC \o LZ4F_blocks(src) \o <<LZ4F_ENDMARK>>
    IN  IF Len(frame) <= dstCapacity
        THEN [err |-> FALSE, frame |-> frame]
        ELSE [err |-> TRUE, frame |-> <<>>]

\* LZ4F_createDecompressionContext: a decoder waiting for the magic number
LZ4F_newContext == [stage |-> "magic", k |-> 0, b |-> 0]

\* LZ4F_decompress(dctx, dst, &dstSize, src, &srcSize, nullptr), one call:
\* consumes at most maxIn bytes of src and writes at most cap bytes;
\* i bytes of src are consumed and out is written so far
RECURSIVE LZ4F_run(_, _, _, _, _, _)
LZ4F_run(d, cap, src, maxIn, i, out) ==
    LET stop == [dctx |-> d, err |-> FALSE, srcSize |-> i, out |-> out]
        avail == Min(Len(src), maxIn) - i
        room == cap - Len(out)
    IN  IF d.stage = "match"
        THEN IF d.k = 0
             THEN LZ4F_run([d EXCEPT !.stage = "token"], cap, src, maxIn, i, out)
             ELSE IF room = 0 THEN stop
             ELSE LZ4F_run([d EXCEPT !.k = d.k - Min(d.k, room)], cap, src, maxIn,
                           i, out \o Rep(d.b, Min(d.k, room)))
        ELSE IF d.stage = "literal"
        THEN IF d.k = 0
             THEN LZ4F_run([d EXCEPT !.stage = "token"], cap, src, maxIn, i, out)
             ELSE IF room = 0 \/ avail <= 0 THEN stop
             ELSE LET w == Min(d.k, Min(room, avail))
                  IN  LZ4F_run([d EXCEPT !.k = d.k - w], cap, src, maxIn, i + w,
                               out \o Slice(src, i + 1, i + w))
        ELSE IF d.stage = "end" \/ avail <= 0 THEN stop
        ELSE IF d.stage = "magic"
        THEN IF src[i + 1] # LZ4F_MAGIC[d.k + 1]
             THEN [dctx |-> d, err |-> TRUE, srcSize |-> i, out |-> out]
             ELSE LZ4F_run(IF d.k + 1 = Len(LZ4F_MAGIC)
                           THEN [d EXCEPT !.stage = "token", !.k = 0]
                           ELSE [d EXCEPT !.k = d.k + 1],
                           cap, src, maxIn, i + 1, out)
        ELSE IF d.stage = "token"
        THEN LZ4F_run(IF src[i + 1] = LZ4F_ENDMARK
                      THEN [d EXCEPT !.stage = "end", !.k = 0]
                      ELSE IF src[i + 1] > 128
                      THEN [d EXCEPT !.stage = "literal", !.k = src[i + 1] - 128]
                      ELSE [d EXCEPT !.stage = "byte", !.k = src[i + 1]],
                      cap, src, maxIn, i + 1, out)
        ELSE \* "byte": the byte a match repeats
             LZ4F_run([d EXCEPT !.stage = "match", !.b = src[i + 1]],
                      cap, src, maxIn, i + 1, out)

LZ4F_decompress(dctx, cap, src, maxIn) == LZ4F_run(dctx, cap, src, maxIn, 0, <<>>)

(***************************************************************************)
(* CompressionAlgorithms.h: lz4fCompress                                    *)
(***************************************************************************)
\* a faulty lz4fCompress: the factory is asked for the frame bound alone
lz4fCompress_BoundOnly(in, inSize, fault) ==
    LET vi == write_varint(inSize)
        originalSizeBytes == Len(vi)
        outCapacity == LZ4F_compressFrameBound(Len(in))
        r == LZ4F_compressFrame(outCapacity, in)
    IN  IF ~LimbLe(inSize, UINT32_MAX)
        THEN [threw |-> TRUE, bfCalled |-> FALSE, bfSize |-> 0, data |-> <<>>, size |-> 0]
        ELSE IF fault \/ r.err
        THEN [threw |-> TRUE, bfCalled |-> TRUE,
              bfSize |-> outCapacity, data |-> vi, size |-> 0]
        ELSE [threw |-> FALSE, bfCalled |-> TRUE,
              bfSize |-> outCapacity,
              data |-> vi \o r.frame,
              size |-> originalSizeBytes + Len(r.frame)]

\* lz4fCompress(in, inSize, bf).  fault: the library call reports an error.
\* inSize is a std::size_t (limbs); in holds the inSize bytes at in when
\* inSize is at most UINT32_MAX, and is not read otherwise.
\* Returns [threw, bfCalled, bfSize, data, size]: data is what the call wrote
\* into the buffer the factory returned, size the return value.
lz4fCompress(in, inSize, fault) ==
    LET vi == write_varint(inSize)
        originalSizeBytes == Len(vi)
        outCapacity == LZ4F_compressFrameBound(Len(in))
        r == LZ4F_compressFrame(outCapacity, in)
    IN  IF ~LimbLe(inSize, UINT32_MAX)
        THEN [threw |-> TRUE, bfCalled |-> FALSE, bfSize |-> 0, data |-> <<>>, size |-> 0]
        ELSE IF fault \/ r.err
        THEN [threw |-> TRUE, bfCalled |-> TRUE,
              bfSize |-> originalSizeBytes + outCapacity, data |-> vi, size |-> 0]
        ELSE [threw |-> FALSE, bfCalled |-> TRUE,
              bfSize |-> originalSizeBytes + outCapacity,
              data |-> vi \o r.frame,
              size |-> originalSizeBytes + Len(r.frame)]

(***************************************************************************)
(* Compression.h                                                            *)
(***************************************************************************)
Algorithm_None == 0
Algorithm_LZ4 == 1

\* compression::compress(in, in_size, bf, algorithm): try { ... } catch (...)
\* { return 0; }
compress_call(in, algorithm, fault) ==
    IF algorithm = Algorithm_LZ4
    THEN LET r == lz4fCompress(in, SizeT(Len(in)), fault)
         IN  IF r.threw THEN [r EXCEPT !.size = 0] ELSE r
    ELSE [threw |-> TRUE, bfCalled |-> FALSE, bfSize |-> 0, data |-> <<>>, size |-> 0]

(***************************************************************************)
(* protocol::MessageType (the tags the codec names)                         *)
(***************************************************************************)
mtMANIFESTS == 2
mtPING == 3
mtCLUSTER == 5
mtENDPOINTS == 15
mtTRANSACTION == 30
mtGET_LEDGER == 31
mtLEDGER_DATA == 32
mtPROPOSE_LEDGER == 33
mtSTATUS_CHANGE == 34
mtHAVE_SET == 35
mtVALIDATION == 41
mtGET_OBJECTS == 42
mtGET_SHARD_INFO == 50
mtSHARD_INFO == 51
mtGET_PEER_SHARD_INFO == 52
mtPEER_SHARD_INFO == 53
mtVALIDATORLIST == 54

(***************************************************************************)
(* Message.cpp: header, constructor, compress                               *)
(***************************************************************************)
headerBytes == 6

\* a faulty setHeader: the algorithm id is not shifted to bits 6..4
setHeader_NoAlgorithmShift(messageBytes, type, compressedOn, comprAlgorithm) ==
    LET compression ==
            BitAnd(IF compressedOn THEN 240 ELSE 0,
                   Lo8(BitOr(128, comprAlgorithm)))
    IN  << Lo8(BitOr(Shr(messageBytes, 24), compression)),
           Lo8(Shr(messageBytes, 16)),
           Lo8(Shr(messageBytes, 8)),
           Lo8(messageBytes),
           Lo8(Shr(type, 8)),
           Lo8(type) >>

\* Message::setHeader(in, messageBytes, type, compressed, comprAlgorithm):
\* the six bytes written
setHeader(messageBytes, type, compressedOn, comprAlgorithm) ==
    LET compression ==
            BitAnd(IF compressedOn THEN 240 ELSE 0,
                   Lo8(BitOr(128, comprAlgorithm * 16)))
    IN  << Lo8(BitOr(Shr(messageBytes, 24), compression)),
           Lo8(Shr(messageBytes, 16)),
           Lo8(Shr(messageBytes, 8)),
           Lo8(messageBytes),
           Lo8(Shr(type, 8)),
           Lo8(type) >>

\* getType(buffer_.data()): the message type stored in bytes 4..5 of a header
getType(buf) == buf[5] * 256 + buf[6]

\* Message::Message(message, type): buffer_ after construction, for a
\* protobuf message whose serialisation is payload (messageBytes != 0)
MessageCtor(payload, type) ==
    setHeader(Len(payload), type, FALSE, Algorithm_LZ4) \o payload

\* a faulty compressible lambda: messageBytes < 70 for <= 70
compressible_AtSeventy(type, messageBytes) ==
    IF messageBytes < 70 THEN FALSE
    ELSE type \in {mtMANIFESTS, mtENDPOINTS, mtTRANSACTION, mtGET_LEDGER,
                   mtLEDGER_DATA, mtGET_OBJECTS, mtVALIDATORLIST}

\* the compressible lambda of Message::compress
compressible(type, messageBytes) ==
    IF messageBytes <= 70 THEN FALSE
    ELSE type \in {mtMANIFESTS, mtENDPOINTS, mtTRANSACTION, mtGET_LEDGER,
                   mtLEDGER_DATA, mtGET_OBJECTS, mtVALIDATORLIST}

\* the buffer factory of Message::compress:
\* bufferCompressed_.resize(in_size + headerBytes), then the codec writes data
\* at offset headerBytes
AfterFactory(bufferCompressed, r) ==
    IF ~r.bfCalled THEN bufferCompressed
    ELSE LET n == r.bfSize + headerBytes
             grown == Take(bufferCompressed, n) \o Zeros(n - Min(n, Len(bufferCompressed)))
         IN  [i \in 1..n |->
                IF i > headerBytes /\ i <= headerBytes + Len(r.data)
                THEN r.data[i - headerBytes] ELSE grown[i]]

\* std::vector::resize(n) of a byte vector
Resize(v, n) == Take(v, n) \o Zeros(n - Min(n, Len(v)))

\* a faulty tail of Message::compress: keeps a compressed form that is no
\* smaller than the payload (<= for <)
AfterCompress_KeepsEqual(bufferCompressed, compressedSize, messageBytes, type) ==
    IF compressedSize <= messageBytes
    THEN setHeader(compressedSize, type, TRUE, Algorithm_LZ4)
         \o Drop(Resize(bufferCompressed, headerBytes + compressedSize), headerBytes)
    ELSE <<>>

\* a faulty tail of Message::compress: the header is written with
\* Compressed::Off
AfterCompress_PlainHeader(bufferCompressed, compressedSize, messageBytes, type) ==
    IF compressedSize < messageBytes
    THEN setHeader(compressedSize, type, FALSE, Algorithm_LZ4)
         \o Drop(Resize(bufferCompressed, headerBytes + compressedSize), headerBytes)
    ELSE <<>>

\* the tail of Message::compress, after compression::compress returned
\* compressedSize: keep the framed compressed buffer or drop it
AfterCompress(bufferCompressed, compressedSize, messageBytes, type) ==
    IF compressedSize < messageBytes
    THEN setHeader(compressedSize, type, TRUE, Algorithm_LZ4)
         \o Drop(Resize(bufferCompressed, headerBytes + compressedSize), headerBytes)
    ELSE <<>>

(***************************************************************************)
(* ProtocolMessage.h: parseMessageHeader over a buffer sequence             *)
(***************************************************************************)
\* boost::asio::buffer_size(buffers)
RECURSIVE buffer_size(_)
buffer_size(bufs) ==
    IF bufs = <<>> THEN 0 ELSE Len(Head(bufs)) + buffer_size(Tail(bufs))

\* *(buffers_begin(bufs) + i): the byte at 0-based offset i of the sequence
RECURSIVE ByteAt(_, _)
ByteAt(bufs, i) ==
    IF i < Len(Head(bufs)) THEN Head(bufs)[i + 1]
    ELSE ByteAt(Tail(bufs), i - Len(Head(bufs)))

NoHeader ==
    [ok |-> FALSE, total_wire_size |-> 0, header_size |-> 0,
     payload_wire_size |-> 0, message_type |-> 0, compressed |-> FALSE,
     algorithm |-> 0]

\* a faulty parseMessageHeader: accepts every first byte
parseMessageHeader_NoValidity(bufs, size) ==
    LET b0 == ByteAt(bufs, 0)
        payload == ((BitAnd(b0, 3) * 256 + ByteAt(bufs, 1)) * 256
                     + ByteAt(bufs, 2)) * 256 + ByteAt(bufs, 3)
    IN  IF size < 6 THEN NoHeader
        ELSE [ok |-> TRUE,
              total_wire_size |-> 6 + payload,
              header_size |-> 6,
              payload_wire_size |-> payload,
              message_type |-> ByteAt(bufs, 4) * 256 + ByteAt(bufs, 5),
              compressed |-> BitAnd(b0, 128) = 128,
              algorithm |-> Shr(BitAnd(b0, 112), 4)]

\* a faulty parseMessageHeader: on fewer than header_size bytes returns the
\* header filled so far instead of none
parseMessageHeader_ReturnsPartial(bufs, size) ==
    LET b0 == ByteAt(bufs, 0)
        compressed == BitAnd(b0, 128) = 128
        algorithm == Shr(BitAnd(b0, 112), 4)
    IN  IF BitAnd(b0, 252) = 0 \/ compressed
        THEN IF size < 6
             THEN [ok |-> TRUE, total_wire_size |-> 0, header_size |-> 6,
                   payload_wire_size |-> 0, message_type |-> 0,
                   compressed |-> compressed, algorithm |-> algorithm]
             ELSE LET payload == ((BitAnd(b0, 3) * 256 + ByteAt(bufs, 1)) * 256
                                   + ByteAt(bufs, 2)) * 256 + ByteAt(bufs, 3)
                  IN  [ok |-> TRUE,
                       total_wire_size |-> 6 + payload,
                       header_size |-> 6,
                       payload_wire_size |-> payload,
                       message_type |-> ByteAt(bufs, 4) * 256 + ByteAt(bufs, 5),
                       compressed |-> compressed,
                       algorithm |-> algorithm]
        ELSE NoHeader

\* a faulty parseMessageHeader: the validity test looks at bits 7..4 only
parseMessageHeader_LooseMask(bufs, size) ==
    LET b0 == ByteAt(bufs, 0)
        compressed == BitAnd(b0, 128) = 128
        algorithm == Shr(BitAnd(b0, 112), 4)
    IN  IF BitAnd(b0, 240) = 0 \/ compressed
        THEN IF size < 6 THEN NoHeader
             ELSE LET payload == ((BitAnd(b0, 3) * 256 + ByteAt(bufs, 1)) * 256
                                   + ByteAt(bufs, 2)) * 256 + ByteAt(bufs, 3)
                  IN  [ok |-> TRUE,
                       total_wire_size |-> 6 + payload,
                       header_size |-> 6,
                       payload_wire_size |-> payload,
                       message_type |-> ByteAt(bufs, 4) * 256 + ByteAt(bufs, 5),
                       compressed |-> compressed,
                       algorithm |-> algorithm]
        ELSE NoHeader

\* a faulty parseMessageHeader: the size keeps 28 bits of the first four bytes
parseMessageHeader_WideMask(bufs, size) ==
    LET b0 == ByteAt(bufs, 0)
        compressed == BitAnd(b0, 128) = 128
        algorithm == Shr(BitAnd(b0, 112), 4)
    IN  IF BitAnd(b0, 252) = 0 \/ compressed
        THEN IF size < 6 THEN NoHeader
             ELSE LET payload == ((BitAnd(b0, 15) * 256 + ByteAt(bufs, 1)) * 256
                                   + ByteAt(bufs, 2)) * 256 + ByteAt(bufs, 3)
                  IN  [ok |-> TRUE,
                       total_wire_size |-> 6 + payload,
                       header_size |-> 6,
                       payload_wire_size |-> payload,
                       message_type |-> ByteAt(bufs, 4) * 256 + ByteAt(bufs, 5),
                       compressed |-> compressed,
                       algorithm |-> algorithm]
        ELSE NoHeader

\* detail::parseMessageHeader(bufs, size); size >= 1
parseMessageHeader(bufs, size) ==
    LET b0 == ByteAt(bufs, 0)
        compressed == BitAnd(b0, 128) = 128
        algorithm == Shr(BitAnd(b0, 112), 4)
    IN  IF BitAnd(b0, 252) = 0 \/ compressed
        THEN IF size < 6 THEN NoHeader
             ELSE LET \* four bytes shifted into a uint32, then & 0x03FFFFFF:
                      \* of byte 0 only the low two bits survive the mask
                      payload == ((BitAnd(b0, 3) * 256 + ByteAt(bufs, 1)) * 256
                                   + ByteAt(bufs, 2)) * 256 + ByteAt(bufs, 3)
                  IN  [ok |-> TRUE,
                       total_wire_size |-> 6 + payload,
                       header_size |-> 6,
                       payload_wire_size |-> payload,
                       message_type |-> ByteAt(bufs, 4) * 256 + ByteAt(bufs, 5),
                       compressed |-> compressed,
                       algorithm |-> algorithm]
        ELSE NoHeader

(***************************************************************************)
(* ZeroCopyInputStream over a buffer sequence: first is the 1-based index   *)
(* of first_ (Len(bufs) + 1 is last_), pos the bytes Next returns next.     *)
(***************************************************************************)
ZeroCopyInputStream(bufs) ==
    [bufs |-> bufs, first |-> 1,
     pos |-> IF bufs # <<>> THEN bufs[1] ELSE <<>>]

AtLast(in) == in.first = Len(in.bufs) + 1

\* Next(&data, &size): data and size are set even when it returns false
Next(in) ==
    IF AtLast(in)
    THEN [ok |-> FALSE, data |-> in.pos, in |-> in]
    ELSE [ok |-> TRUE, data |-> in.pos,
          in |-> [in EXCEPT !.first = in.first + 1,
                            !.pos = IF in.first + 1 <= Len(in.bufs)
                                    THEN in.bufs[in.first + 1] ELSE <<>>]]

\* BackUp(count)
BackUp(in, count) ==
    LET f == in.first - 1
    IN  [in EXCEPT !.first = f, !.pos = Drop(in.bufs[f], Len(in.bufs[f]) - count)]

\* Skip(count): [ok, in]
RECURSIVE SkipLoop(_, _)
SkipLoop(in, count) ==
    IF count <= 0 THEN [ok |-> TRUE, in |-> in]
    ELSE LET size == Len(in.pos)
         IN  IF count < size
             THEN [ok |-> TRUE, in |-> [in EXCEPT !.pos = Drop(in.pos, count)]]
             ELSE IF in.first + 1 = Len(in.bufs) + 1
                  THEN [ok |-> FALSE, in |-> [in EXCEPT !.first = in.first + 1]]
                  ELSE SkipLoop([in EXCEPT !.first = in.first + 1,
                                           !.pos = in.bufs[in.first + 1]],
                                count - size)

Skip(in, count) ==
    IF AtLast(in) THEN [ok |-> FALSE, in |-> in] ELSE SkipLoop(in, count)

(***************************************************************************)
(* CompressionAlgorithms.h: decompression                                   *)
(***************************************************************************)
\* copyStream(in, dst, size, usedSize): [ok, in, dst, usedSize]
RECURSIVE copyStream(_, _, _, _)
copyStream(in, dst, size, usedSize) ==
    IF Len(dst) = size
    THEN [ok |-> TRUE, in |-> in, dst |-> dst, usedSize |-> usedSize]
    ELSE LET nx == Next(in)
         IN  IF ~nx.ok
             THEN [ok |-> FALSE, in |-> nx.in, dst |-> dst, usedSize |-> usedSize]
             ELSE LET dataSize == Len(nx.data)
                      sz == IF dataSize >= size - Len(dst)
                            THEN size - Len(dst) ELSE dataSize
                  IN  copyStream(nx.in, dst \o Take(nx.data, sz), size,
                                 Append(usedSize, dataSize))

\* a faulty rewind: only the chunk read last is given back
Rewind_LastChunkOnly(in, usedSize) ==
    IF usedSize = <<>> THEN in ELSE BackUp(in, usedSize[Len(usedSize)])

\* the rewind loop of getOriginalSize: BackUp over usedSize in reverse order
RECURSIVE Rewind(_, _)
Rewind(in, usedSize) ==
    IF usedSize = <<>> THEN in
    ELSE Rewind(BackUp(in, usedSize[Len(usedSize)]),
                SubSeq(usedSize, 1, Len(usedSize) - 1))

\* getOriginalSize(in): [threw, originalSize (limbs), originalSizeBytes, in]
getOriginalSize(in) ==
    LET fail(st) == [threw |-> TRUE, originalSize |-> SizeT(0),
                     originalSizeBytes |-> 0, in |-> st]
    IN  Only({
        IF ~nx.ok THEN fail(nx.in)
        ELSE Only({
             IF ~cs.ok THEN fail(cs.in)
             ELSE Only({
                  IF rv.n = 0 THEN fail(cs.in)
                  ELSE [threw |-> FALSE, originalSize |-> rv.t,
                        originalSizeBytes |-> rv.n,
                        in |-> Skip(Rewind(cs.in, cs.usedSize), rv.n).in]
                  : rv \in {read_varint(nx.data \o cs.dst, varint_max)} })
             : cs \in {IF Len(nx.data) < varint_max
                       THEN copyStream(nx.in, <<>>, varint_max - Len(nx.data),
                                       <<Len(nx.data)>>)
                       ELSE [ok |-> TRUE, in |-> nx.in, dst |-> <<>>,
                             usedSize |-> <<Len(nx.data)>>]} })
        : nx \in {Next(in)} })

\* a faulty nextChunk: the new chunk is put in front of the cached bytes
nextChunk_ChunkFirst(in, inSize, buffer) ==
    LET nx == Next(in)
        chunkSize0 == Len(nx.data)
        sz == Len(buffer)
    IN  IF ~nx.ok /\ buffer = <<>>
        THEN [ok |-> FALSE, in |-> nx.in, chunk |-> <<>>, buffer |-> buffer]
        ELSE IF buffer # <<>>
        THEN LET chunkSize == IF chunkSize0 + sz <= inSize
                              THEN chunkSize0 ELSE inSize - sz
                 joined == Take(nx.data, chunkSize) \o buffer
             IN  [ok |-> TRUE, in |-> nx.in, chunk |-> joined, buffer |-> joined]
        ELSE LET chunkSize == IF chunkSize0 <= inSize THEN chunkSize0 ELSE inSize
             IN  [ok |-> TRUE, in |-> nx.in, chunk |-> Take(nx.data, chunkSize),
                  buffer |-> buffer]

\* nextChunk(in, inSize, compressedChunk, chunkSize, buffer):
\* [ok, in, chunk, buffer]; the chunk handed to the decoder is chunk
nextChunk(in, inSize, buffer) ==
    LET nx == Next(in)
        chunkSize0 == Len(nx.data)
        sz == Len(buffer)
    IN  IF ~nx.ok /\ buffer = <<>>
        THEN [ok |-> FALSE, in |-> nx.in, chunk |-> <<>>, buffer |-> buffer]
        ELSE IF buffer # <<>>
        THEN LET chunkSize == IF chunkSize0 + sz <= inSize
                              THEN chunkSize0 ELSE inSize - sz
                 joined == buffer \o Take(nx.data, chunkSize)
             IN  [ok |-> TRUE, in |-> nx.in, chunk |-> joined, buffer |-> joined]
        ELSE LET chunkSize == IF chunkSize0 <= inSize THEN chunkSize0 ELSE inSize
             IN  [ok |-> TRUE, in |-> nx.in, chunk |-> Take(nx.data, chunkSize),
                  buffer |-> buffer]

\* a faulty updateBuffer: forgets the bytes the decoder did not consume
updateBuffer_DropsResidual(srcSize, chunk, buffer) == <<>>

\* updateBuffer(srcSize, compressedChunk, chunkSize, buffer): the new buffer.
\* When the buffer is not empty the chunk is the buffer itself (nextChunk).
updateBuffer(srcSize, chunk, buffer) ==
    IF srcSize # Len(chunk)
    THEN IF buffer # <<>>
         THEN Take(Drop(buffer, srcSize), Len(chunk) - srcSize)
         ELSE Drop(chunk, srcSize)
    ELSE <<>>

\* a declared size beyond the model's integers: a target no input reaches
HugeSize == Pow2(30) + (Pow2(30) - 1)

\* a faulty loop: a call that consumes no input ends the loop without a
\* failure
RECURSIVE lz4fLoop_BreaksOnIdle(_, _)
lz4fLoop_BreaksOnIdle(s, maxIn) ==
    IF Len(s.out) = s.originalSize THEN s
    ELSE LET nc == nextChunk(s.in, s.inSize, s.buffer)
         IN  IF ~nc.ok THEN [s EXCEPT !.in = nc.in]
             ELSE LET r == LZ4F_decompress(s.dctx, s.originalSize - Len(s.out),
                                           nc.chunk, maxIn)
                  IN  IF r.err
                      THEN [s EXCEPT !.threw = TRUE, !.in = nc.in,
                                     !.buffer = nc.buffer,
                                     !.handed = Append(s.handed, nc.chunk),
                                     !.fed = Append(s.fed, Take(nc.chunk, r.srcSize))]
                      ELSE IF r.srcSize = 0
                      THEN [s EXCEPT !.in = nc.in,
                                     !.buffer = nc.buffer,
                                     !.handed = Append(s.handed, nc.chunk),
                                     !.fed = Append(s.fed, <<>>)]
                      ELSE lz4fLoop_BreaksOnIdle(
                             [s EXCEPT !.in = nc.in,
                                       !.dctx = r.dctx,
                                       !.out = s.out \o r.out,
                                       !.inSize = s.inSize - r.srcSize,
                                       !.buffer = updateBuffer(r.srcSize, nc.chunk,
                                                               nc.buffer),
                                       !.handed = Append(s.handed, nc.chunk),
                                       !.fed = Append(s.fed, Take(nc.chunk, r.srcSize)),
                                       !.iter = s.iter + 1],
                             maxIn)

\* the while loop of lz4fDecompress; s holds the locals
RECURSIVE lz4fLoop(_, _)
lz4fLoop(s, maxIn) ==
    IF Len(s.out) = s.originalSize THEN s
    ELSE LET nc == nextChunk(s.in, s.inSize, s.buffer)
         IN  IF ~nc.ok THEN [s EXCEPT !.in = nc.in]
             ELSE LET r == LZ4F_decompress(s.dctx, s.originalSize - Len(s.out),
                                           nc.chunk, maxIn)
                  IN  IF r.err \/ r.srcSize = 0
                      THEN [s EXCEPT !.threw = TRUE, !.in = nc.in,
                                     !.buffer = nc.buffer,
                                     !.handed = Append(s.handed, nc.chunk),
                                     !.fed = Append(s.fed, Take(nc.chunk, r.srcSize))]
                      ELSE lz4fLoop(
                             [s EXCEPT !.in = nc.in,
                                       !.dctx = r.dctx,
                                       !.out = s.out \o r.out,
                                       !.inSize = s.inSize - r.srcSize,
                                       !.buffer = updateBuffer(r.srcSize, nc.chunk,
                                                               nc.buffer),
                                       !.handed = Append(s.handed, nc.chunk),
                                       !.fed = Append(s.fed, Take(nc.chunk, r.srcSize)),
                                       !.iter = s.iter + 1],
                             maxIn)

\* lz4fDecompress(in, inSize, bf): [threw, size, out, bfCalled, bfSize (limbs),
\* created, freed, in, fed, handed, iter, loopThrew, originalSizeBytes,
\* start]; size is the return value, out the bytes written into the buffer
\* the factory returned, handed the chunk given to each LZ4F_decompress call
\* and fed the bytes that call consumed, loopThrew that the loop ended in a
\* throw, start the stream as getOriginalSize left it
lz4fDecompress(in, inSize, maxIn) ==
    Only({
    IF os.threw
    THEN [threw |-> TRUE, size |-> 0, out |-> <<>>, bfCalled |-> FALSE,
          bfSize |-> SizeT(0), created |-> TRUE, freed |-> FALSE,
          in |-> os.in, fed |-> <<>>, handed |-> <<>>, iter |-> 0,
          loopThrew |-> FALSE, originalSizeBytes |-> 0, start |-> os.in]
    ELSE Only({
         [threw |-> s.threw \/ Len(s.out) # s.originalSize,
          size |-> IF s.threw \/ Len(s.out) # s.originalSize
                   THEN 0 ELSE s.originalSize,
          out |-> s.out, bfCalled |-> TRUE, bfSize |-> os.originalSize,
          created |-> TRUE, freed |-> ~s.threw, in |-> s.in, fed |-> s.fed,
          handed |-> s.handed, iter |-> s.iter, loopThrew |-> s.threw,
          originalSizeBytes |-> os.originalSizeBytes, start |-> os.in]
         : s \in {lz4fLoop([threw |-> FALSE, in |-> os.in, inSize |-> inSize,
                            originalSize |-> IF LimbSmall(os.originalSize)
                                             THEN LimbInt(os.originalSize)
                                             ELSE HugeSize,
                            out |-> <<>>, buffer |-> <<>>,
                            dctx |-> LZ4F_newContext, fed |-> <<>>,
                            handed |-> <<>>, iter |-> 0],
                           maxIn)} })
    : os \in {getOriginalSize(in)} })

\* compression::decompress(in, in_size, bf, algorithm): try { ... } catch (...)
\* { return 0; }
decompress(in, in_size, algorithm, maxIn) ==
    IF algorithm = Algorithm_LZ4
    THEN lz4fDecompress(in, in_size, maxIn)
    ELSE [threw |-> TRUE, size |-> 0, out |-> <<>>, bfCalled |-> FALSE,
          bfSize |-> SizeT(0), created |-> FALSE, freed |-> FALSE,
          in |-> in, fed |-> <<>>, handed |-> <<>>, iter |-> 0,
          loopThrew |-> FALSE, originalSizeBytes |-> 0, start |-> in]

(***************************************************************************)
(* State                                                                    *)
(***************************************************************************)
VARIABLES
    \* the protobuf message a Message is built from: its serialised bytes,
    \* its type, and whether the compression library call fails
    payload, msgType, fault,
    \* Message: buffer_, bufferCompressed_, alreadyRequested_, mutex_ (the
    \* thread holding it, 0 when free)
    buffer_, bufferCompressed_, alreadyRequested_, mutex_,
    \* threads calling getBuffer: how many there are, where each is, the
    \* compressedSize local of the one inside compress(), calls completed
    nthreads, pc, compressedSize, calls,
    \* history: what getBuffer(Compressed::On) and getBuffer(Compressed::Off)
    \* calls returned, and how often the body of compress() has run
    onReturns, offReturns, bodyRuns,
    \* inbound side: the scatter-gather buffer, how many bytes the LZ4
    \* decoder takes per call, what the last decompression of a received
    \* buffer gave, and the result and the handler callbacks of the last
    \* invokeProtocolMessage call
    bufs, lz4MaxIn, phase, decoded, result, callbacks,
    \* a caller of the varint codec: the value given to write_varint, the
    \* buffer it wrote or that arrived, the bytes written, the buflen given
    \* to read_varint, what read_varint returned, and where the caller is
    varintValue, varintBuf, varintWritten, varintBuflen, varintRead,
    varintPhase,
    \* a caller of the header codec: the arguments given to setHeader, the
    \* six bytes written or that arrived, the header parseMessageHeader
    \* returned for them, and where the caller is
    hdrArgs, hdrIn, hdr, hdrPhase,
    \* a caller of the LZ4 codec: the arguments given to lz4fCompress or
    \* lz4fDecompress, what the call did, and where the caller is
    lz4Args, lz4Call, lz4Phase

msgVars == <<payload, msgType, fault, buffer_, bufferCompressed_,
             alreadyRequested_, mutex_, nthreads, pc, compressedSize, calls,
             onReturns, offReturns, bodyRuns>>

inVars == <<bufs, lz4MaxIn, phase, decoded, result, callbacks>>

varintVars == <<varintValue, varintBuf, varintWritten, varintBuflen,
                varintRead, varintPhase>>

hdrVars == <<hdrArgs, hdrIn, hdr, hdrPhase>>

lz4Vars == <<lz4Args, lz4Call, lz4Phase>>

vars == <<payload, msgType, fault, buffer_, bufferCompressed_,
          alreadyRequested_, mutex_, nthreads, pc, compressedSize, calls,
          onReturns, offReturns, bodyRuns, bufs, lz4MaxIn, phase, decoded,
          result, callbacks, varintValue, varintBuf, varintWritten,
          varintBuflen, varintRead, varintPhase, hdrArgs, hdrIn, hdr,
          hdrPhase, lz4Args, lz4Call, lz4Phase>>

(***************************************************************************)
(* Inputs                                                                   *)
(***************************************************************************)
\* k alternating bytes, then one run up to length n: the first k bytes do not
\* compress, the rest does
Mixed(n, k) ==
    [i \in 1..n |-> IF i <= k THEN 65 + (i % 2) ELSE 67]

PayloadLens == {1, 70} \cup (71 .. 70 + MaxOver)

\* none or some of the bytes incompressible; as many that the compressed
\* payload is exactly as long as the payload (n - 9); all of them
LiteralCounts(n) == {0, Min(20, n), IF n > 9 THEN n - 9 ELSE 0, n}

Payloads == {Mixed(n, k) : <<n, k>> \in {nk \in PayloadLens \X (0..(70 + MaxOver)) :
                                          nk[2] \in LiteralCounts(nk[1])}}

MsgTypes == {mtMANIFESTS, mtPING, mtVALIDATORLIST}

Threads == 1 .. nthreads

(***************************************************************************)
(* Message: construction and getBuffer, one step per access to shared state *)
(***************************************************************************)
InitInbound(ph) ==
    /\ bufs = <<>>
    /\ lz4MaxIn = 0
    /\ phase = ph
    /\ decoded = [compressed |-> FALSE, ok |-> FALSE, bytes |-> <<>>]
    /\ result = [consumed |-> 0, error |-> "none"]
    /\ callbacks = <<>>

\* the caller of the varint codec before any call
InitVarint(ph) ==
    /\ varintValue = SizeT(0)
    /\ varintBuf = <<>>
    /\ varintWritten = 0
    /\ varintBuflen = 0
    /\ varintRead = [n |-> 0, t |-> SizeT(0)]
    /\ varintPhase = ph

\* setHeader called with nothing: the arguments before any call
NoHeaderArgs ==
    [set |-> FALSE, messageBytes |-> 0, type |-> 0, compressed |-> FALSE,
     comprAlgorithm |-> 0]

\* the caller of the header codec before any call
InitHeader(ph) ==
    /\ hdrArgs = NoHeaderArgs
    /\ hdrIn = <<>>
    /\ hdr = NoHeader
    /\ hdrPhase = ph

\* the caller of the LZ4 codec before any call
InitCodec(ph) ==
    /\ lz4Args = [op |-> "none"]
    /\ lz4Call = [op |-> "none"]
    /\ lz4Phase = ph

\* Message::Message for every input of the sets, shared by n threads
InitMessageOf(payloads, types, n, faults, ph) ==
    /\ payload \in payloads
    /\ msgType \in types
    /\ fault \in faults
    /\ buffer_ = MessageCtor(payload, msgType)
    /\ bufferCompressed_ = <<>>
    /\ alreadyRequested_ = FALSE
    /\ mutex_ = 0
    /\ nthreads = n
    /\ pc = [t \in 1..n |-> "idle"]
    /\ compressedSize = 0
    /\ calls = [t \in 1..n |-> 0]
    /\ onReturns = {}
    /\ offReturns = {}
    /\ bodyRuns = 0
    /\ InitInbound(ph)
    /\ InitVarint(IF ph = "varint" THEN "idle" ELSE "none")
    /\ InitHeader(IF ph = "header" THEN "idle" ELSE "none")
    /\ InitCodec(IF ph = "codec" THEN "idle" ELSE "none")

InitMessage(n, faults) == InitMessageOf(Payloads, MsgTypes, n, faults, "none")

\* getBuffer(Compressed::Off): return mBuffer
GetBufferOff(t) ==
    /\ t \in Threads
    /\ pc[t] = "idle"
    /\ calls[t] < MaxCalls
    /\ offReturns' = offReturns \cup {buffer_}
    /\ calls' = [calls EXCEPT ![t] = calls[t] + 1]
    /\ UNCHANGED <<payload, msgType, fault, buffer_, bufferCompressed_,
                   alreadyRequested_, mutex_, nthreads, pc, compressedSize,
                   onReturns, bodyRuns>>
    /\ UNCHANGED inVars
    /\ UNCHANGED varintVars
    /\ UNCHANGED hdrVars
    /\ UNCHANGED lz4Vars

\* getBuffer(Compressed::On) is entered
GetBufferOn(t) ==
    /\ t \in Threads
    /\ pc[t] = "idle"
    /\ calls[t] < MaxCalls
    /\ pc' = [pc EXCEPT ![t] = "check"]
    /\ UNCHANGED <<payload, msgType, fault, buffer_, bufferCompressed_,
                   alreadyRequested_, mutex_, nthreads, compressedSize, calls,
                   onReturns, offReturns, bodyRuns>>
    /\ UNCHANGED inVars
    /\ UNCHANGED varintVars
    /\ UNCHANGED hdrVars
    /\ UNCHANGED lz4Vars

\* What the read of the flag in getBuffer can yield.  The flag is a plain
\* bool read without the mutex while compress() stores to it under the mutex:
\* a data race.  Once the holder has left the compression call, its store to
\* the flag may become visible before its stores to the compressed buffer.
FlagValuesSeen ==
    IF mutex_ # 0 /\ pc[mutex_] \in {"tail", "flag"}
    THEN {alreadyRequested_, TRUE}
    ELSE {alreadyRequested_}

\* if (!mCompressedRequested) compress(mType);
CheckRequested(t) ==
    /\ t \in Threads
    /\ pc[t] = "check"
    /\ \E seen \in FlagValuesSeen :
         pc' = [pc EXCEPT ![t] = IF seen THEN "read" ELSE "lock"]
    /\ UNCHANGED <<payload, msgType, fault, buffer_, bufferCompressed_,
                   alreadyRequested_, mutex_, nthreads, compressedSize, calls,
                   onReturns, offReturns, bodyRuns>>
    /\ UNCHANGED inVars
    /\ UNCHANGED varintVars
    /\ UNCHANGED hdrVars
    /\ UNCHANGED lz4Vars

\* compress(): lock_guard lock(mutex_); if (alreadyRequested_) return;
\* then the compressible decision
EnterCompress(t) ==
    /\ t \in Threads
    /\ pc[t] = "lock"
    /\ mutex_ = 0
    /\ IF alreadyRequested_
       THEN /\ pc' = [pc EXCEPT ![t] = "read"]
            /\ UNCHANGED <<mutex_, bodyRuns>>
       ELSE /\ mutex_' = t
            /\ bodyRuns' = bodyRuns + 1
            /\ pc' = [pc EXCEPT ![t] =
                        IF compressible(getType(buffer_), Len(buffer_) - headerBytes)
                        THEN "compress" ELSE "flag"]
    /\ UNCHANGED <<payload, msgType, fault, buffer_, bufferCompressed_,
                   alreadyRequested_, nthreads, compressedSize, calls,
                   onReturns, offReturns>>
    /\ UNCHANGED inVars
    /\ UNCHANGED varintVars
    /\ UNCHANGED hdrVars
    /\ UNCHANGED lz4Vars

\* compressedSize = compression::compress(payload, messageBytes, bf): the
\* factory resizes bufferCompressed_ and the codec writes behind the header
CompressCall(t) ==
    /\ t \in Threads
    /\ pc[t] = "compress"
    /\ LET r == compress_call(Drop(buffer_, headerBytes), Algorithm_LZ4, fault)
       IN  /\ bufferCompressed_' = AfterFactory(bufferCompressed_, r)
           /\ compressedSize' = r.size
    /\ pc' = [pc EXCEPT ![t] = "tail"]
    /\ UNCHANGED <<payload, msgType, fault, buffer_, alreadyRequested_, mutex_,
                   nthreads, calls, onReturns, offReturns, bodyRuns>>
    /\ UNCHANGED inVars
    /\ UNCHANGED varintVars
    /\ UNCHANGED hdrVars
    /\ UNCHANGED lz4Vars

\* a faulty tail of compress(): setHeader is given buffer_.data()
CompressTail_WritesPlain(t) ==
    /\ t \in Threads
    /\ pc[t] = "tail"
    /\ bufferCompressed_' =
         IF compressedSize < Len(buffer_) - headerBytes
         THEN Resize(bufferCompressed_, headerBytes + compressedSize)
         ELSE <<>>
    /\ buffer_' =
         IF compressedSize < Len(buffer_) - headerBytes
         THEN setHeader(compressedSize, getType(buffer_), TRUE, Algorithm_LZ4)
              \o Drop(buffer_, headerBytes)
         ELSE buffer_
    /\ pc' = [pc EXCEPT ![t] = "flag"]
    /\ UNCHANGED <<payload, msgType, fault, alreadyRequested_, mutex_,
                   nthreads, compressedSize, calls, onReturns, offReturns,
                   bodyRuns>>
    /\ UNCHANGED inVars
    /\ UNCHANGED varintVars
    /\ UNCHANGED hdrVars
    /\ UNCHANGED lz4Vars

\* if (compressedSize < messageBytes) { resize; setHeader } else resize(0)
CompressTail(t) ==
    /\ t \in Threads
    /\ pc[t] = "tail"
    /\ bufferCompressed_' =
         AfterCompress(bufferCompressed_, compressedSize,
                       Len(buffer_) - headerBytes, getType(buffer_))
    /\ pc' = [pc EXCEPT ![t] = "flag"]
    /\ UNCHANGED <<payload, msgType, fault, buffer_, alreadyRequested_, mutex_,
                   nthreads, compressedSize, calls, onReturns, offReturns,
                   bodyRuns>>
    /\ UNCHANGED inVars
    /\ UNCHANGED varintVars
    /\ UNCHANGED hdrVars
    /\ UNCHANGED lz4Vars

\* alreadyRequested_ = true; the lock_guard releases the mutex
SetRequested(t) ==
    /\ t \in Threads
    /\ pc[t] = "flag"
    /\ alreadyRequested_' = TRUE
    /\ mutex_' = 0
    /\ pc' = [pc EXCEPT ![t] = "read"]
    /\ UNCHANGED <<payload, msgType, fault, buffer_, bufferCompressed_,
                   nthreads, compressedSize, calls, onReturns, offReturns,
                   bodyRuns>>
    /\ UNCHANGED inVars
    /\ UNCHANGED varintVars
    /\ UNCHANGED hdrVars
    /\ UNCHANGED lz4Vars

\* if (mBufferCompressed.size() > 0) return mBufferCompressed; else return mBuffer;
ReturnBuffer(t) ==
    /\ t \in Threads
    /\ pc[t] = "read"
    /\ onReturns' = onReturns \cup
         { IF Len(bufferCompressed_) > 0
           THEN [which |-> "compressed", bytes |-> bufferCompressed_]
           ELSE [which |-> "plain", bytes |-> buffer_] }
    /\ pc' = [pc EXCEPT ![t] = "idle"]
    /\ calls' = [calls EXCEPT ![t] = calls[t] + 1]
    /\ UNCHANGED <<payload, msgType, fault, buffer_, bufferCompressed_,
                   alreadyRequested_, mutex_, nthreads, compressedSize,
                   offReturns, bodyRuns>>
    /\ UNCHANGED inVars
    /\ UNCHANGED varintVars
    /\ UNCHANGED hdrVars
    /\ UNCHANGED lz4Vars

NextMessage ==
    \E t \in 1..NumThreads :
        \/ GetBufferOff(t)
        \/ GetBufferOn(t)
        \/ CheckRequested(t)
        \/ EnterCompress(t)
        \/ CompressCall(t)
        \/ CompressTail(t)
        \/ SetRequested(t)
        \/ ReturnBuffer(t)

\* one Message shared by NumThreads threads
Spec == InitMessage(NumThreads, {FALSE}) /\ [][NextMessage]_vars

\* one Message used by one thread
SpecSeq == InitMessage(1, {FALSE}) /\ [][NextMessage]_vars

\* one Message used by one thread, the compression call may fail
SpecFault == InitMessage(1, BOOLEAN) /\ [][NextMessage]_vars

\* the cases of the switch of the compressible lambda, and a type it does not
\* list
SwitchTypes ==
    {mtMANIFESTS, mtENDPOINTS, mtTRANSACTION, mtGET_LEDGER, mtLEDGER_DATA,
     mtGET_OBJECTS, mtVALIDATORLIST, mtPING, mtCLUSTER, mtPROPOSE_LEDGER,
     mtSTATUS_CHANGE, mtHAVE_SET, mtVALIDATION, mtGET_SHARD_INFO, mtSHARD_INFO,
     mtGET_PEER_SHARD_INFO, mtPEER_SHARD_INFO, 99}

\* the types of the switch that fall to its default case
DefaultTypes ==
    {mtPING, mtCLUSTER, mtPROPOSE_LEDGER, mtSTATUS_CHANGE, mtHAVE_SET,
     mtVALIDATION, mtGET_SHARD_INFO, mtSHARD_INFO, mtGET_PEER_SHARD_INFO,
     mtPEER_SHARD_INFO}

\* payloads at the threshold and one byte above it, the latter one that
\* compresses and one that does not
TypePayloads == {Mixed(70, 0), Mixed(71, 0), Mixed(71, 71)}

\* one Message shared by NumThreads threads: of each type that may compress
\* at and above the threshold, of each other type above it, and of one type
\* of either kind in every length
SpecTypes ==
    (\/ InitMessageOf(TypePayloads, SwitchTypes \ (DefaultTypes \cup {99}),
                      NumThreads, {FALSE}, "none")
     \/ InitMessageOf({Mixed(71, 0)}, DefaultTypes \cup {99},
                      NumThreads, {FALSE}, "none")
     \/ InitMessageOf({Mixed(n, 0) : n \in PayloadLens}, {mtMANIFESTS, mtPING},
                      NumThreads, {FALSE}, "none"))
    /\ [][NextMessage]_vars

\* one Message shared by NumThreads threads, the compression call may fail;
\* the payloads are at the threshold or above it, and compress to fewer
\* bytes, to as many, or to more
SpecSharedFault ==
    InitMessageOf({Mixed(70, 0), Mixed(71, 62), Mixed(71, 71)}
                   \cup {Mixed(n, 0) : n \in 71..(70 + MaxOver)},
                  MsgTypes, NumThreads, BOOLEAN, "none")
    /\ [][NextMessage]_vars

(***************************************************************************)
(* A buffer on the wire: split into segments, header parsed, payload        *)
(* decompressed from a ZeroCopyInputStream (compression_test::do_test)      *)
(***************************************************************************)
\* the cut positions of a buffer of n bytes: up to MaxSegs - 1 of them
CutSets(n) ==
    {c \in SUBSET (1 .. Min(MaxCut, n - 1)) : Cardinality(c) <= MaxSegs - 1}

\* the segments of bytes cut after each position of cuts, from offset from
RECURSIVE CutAt(_, _, _)
CutAt(bytes, cuts, from) ==
    IF cuts = {} THEN <<Drop(bytes, from)>>
    ELSE LET c == CHOOSE x \in cuts : \A y \in cuts : x <= y
         IN  <<Slice(bytes, from + 1, c)>> \o CutAt(bytes, cuts \ {c}, c)

Segmentations(bytes) == {CutAt(bytes, c, 0) : c \in CutSets(Len(bytes))}

\* an unlimited decoder takes all the input it is given
LZ4F_TAKES_ALL == HugeSize

DecoderTakes == {1, 3, LZ4F_TAKES_ALL}

\* do_test, lines 106-130: parse the header; when it says compressed, skip it
\* on a stream over the segments and decompress the payload region
do_test_decode(segs, maxIn) ==
    LET header == parseMessageHeader(segs, buffer_size(segs))
    IN  IF ~header.compressed
        THEN [compressed |-> FALSE, ok |-> header.ok,
              bytes |-> Drop(Flatten(segs), headerBytes)]
        ELSE Only({
             [compressed |-> TRUE, ok |-> ~r.threw /\ r.size = Len(r.out),
              bytes |-> r.out]
             : r \in {decompress(
                         Skip(ZeroCopyInputStream(segs), header.header_size).in,
                         header.payload_wire_size, Algorithm_LZ4, maxIn)} })

\* Message::compress() run to completion by one caller: bufferCompressed_
compressWhole(buffer, isFault) ==
    LET messageBytes == Len(buffer) - headerBytes
        type == getType(buffer)
    IN  IF compressible(type, messageBytes)
        THEN LET r == compress_call(Drop(buffer, headerBytes), Algorithm_LZ4, isFault)
             IN  AfterCompress(AfterFactory(<<>>, r), r.size, messageBytes, type)
        ELSE <<>>

\* one call of getBuffer(Compressed::On) by the only user of the Message; the
\* returned buffer arrives at the receiver in some segmentation
Send ==
    /\ phase = "none"
    /\ ~alreadyRequested_
    /\ bufferCompressed_' = compressWhole(buffer_, fault)
    /\ alreadyRequested_' = TRUE
    /\ bodyRuns' = bodyRuns + 1
    /\ LET ret == IF Len(bufferCompressed_') > 0
                  THEN [which |-> "compressed", bytes |-> bufferCompressed_']
                  ELSE [which |-> "plain", bytes |-> buffer_]
       IN  /\ onReturns' = onReturns \cup {ret}
           /\ \E segs \in Segmentations(ret.bytes) : bufs' = segs
    /\ \E m \in DecoderTakes : lz4MaxIn' = m
    /\ calls' = [calls EXCEPT ![1] = calls[1] + 1]
    /\ phase' = "received"
    /\ UNCHANGED <<payload, msgType, fault, buffer_, mutex_, nthreads, pc,
                   compressedSize, offReturns>>
    /\ UNCHANGED <<decoded, result, callbacks>>
    /\ UNCHANGED varintVars
    /\ UNCHANGED hdrVars
    /\ UNCHANGED lz4Vars

Decode ==
    /\ phase = "received"
    /\ decoded' = do_test_decode(bufs, lz4MaxIn)
    /\ phase' = "decoded"
    /\ UNCHANGED <<bufs, lz4MaxIn, result, callbacks>>
    /\ UNCHANGED msgVars
    /\ UNCHANGED varintVars
    /\ UNCHANGED hdrVars
    /\ UNCHANGED lz4Vars

\* payloads of frames whose varint prefix need not tell their size
ForgedPayloads == {<<65, 65, 65>>, <<65, 66, 67, 68>>, Mixed(6, 2)}

\* a compressed frame of payload q whose varint prefix declares d bytes
ForgedFrame(q, d) ==
    LET z == write_varint(SizeT(d))
             \o LZ4F_compressFrame(LZ4F_compressFrameBound(Len(q)), q).frame
    IN  setHeader(Len(z), mtMANIFESTS, TRUE, Algorithm_LZ4) \o z

\* the sizes declared for a payload of n bytes: up to MaxSkew off
DeclaredSizes(n) == (n - MaxSkew) .. (n + MaxSkew)

\* a compressed frame arrives whose sender declared a size of its own choice
ArriveForged ==
    /\ phase = "raw"
    /\ \E q \in ForgedPayloads :
         \E d \in DeclaredSizes(Len(q)) :
            \E segs \in Segmentations(ForgedFrame(q, d)) : bufs' = segs
    /\ \E m \in DecoderTakes : lz4MaxIn' = m
    /\ phase' = "received"
    /\ UNCHANGED <<decoded, result, callbacks>>
    /\ UNCHANGED msgVars
    /\ UNCHANGED varintVars
    /\ UNCHANGED hdrVars
    /\ UNCHANGED lz4Vars

\* frames with any declared size are decoded as do_test decodes
SpecForged ==
    InitMessageOf({Mixed(1, 0)}, {mtPING}, 1, {FALSE}, "raw")
    /\ [][ArriveForged \/ Decode]_vars

(***************************************************************************)
(* The payload codec (protobuf), seen through the calls the demux makes: a  *)
(* message is the bytes it was parsed from, and bytes holding the byte      *)
(* ProtoBad do not parse.                                                   *)
(***************************************************************************)
ProtoBad == 255

\* m->ParseFromArray(payload, payload_size)
ParseFromArray(bytes) ==
    [ok |-> \A i \in 1..Len(bytes) : bytes[i] # ProtoBad, bytes |-> bytes]

\* what a parser reading the stream to its end is given: every chunk Next
\* returns
RECURSIVE StreamRest(_)
StreamRest(in) ==
    LET nx == Next(in)
    IN  IF ~nx.ok THEN <<>> ELSE nx.data \o StreamRest(nx.in)

\* m->ParseFromZeroCopyStream(&stream)
ParseFromZeroCopyStream(in) == ParseFromArray(StreamRest(in))

(***************************************************************************)
(* ProtocolMessage.h: invoke and invokeProtocolMessage                      *)
(***************************************************************************)
\* the types the switch of invokeProtocolMessage routes
RoutedTypes ==
    {mtMANIFESTS, mtPING, mtCLUSTER, mtGET_SHARD_INFO, mtSHARD_INFO,
     mtGET_PEER_SHARD_INFO, mtPEER_SHARD_INFO, mtENDPOINTS, mtTRANSACTION,
     mtGET_LEDGER, mtLEDGER_DATA, mtPROPOSE_LEDGER, mtSTATUS_CHANGE,
     mtHAVE_SET, mtVALIDATION, mtVALIDATORLIST, mtGET_OBJECTS}

\* compression::decompress(compressed_payload_wire, payload_wire_size, bf,
\* algorithm) as invoke calls it, on the contiguous copy of the buffers:
\* the pair (payload, payload_size), size 0 when decompression failed
decompressArray(total_wire, header, maxIn) ==
    LET region == Drop(total_wire, header.header_size)
    IN  Only({
        IF r.threw THEN [payload |-> <<>>, payload_size |-> 0]
        ELSE [payload |-> r.out, payload_size |-> r.size]
        : r \in {decompress(
                    ZeroCopyInputStream(IF region = <<>> THEN <<>> ELSE <<region>>),
                    header.payload_wire_size, header.algorithm, maxIn)} })

\* the handler calls of a successful invoke, lines 201-204
HandlerCalls(type, m, size) ==
    << [cb |-> "onMessageBegin", type |-> type, m |-> m, size |-> size],
       [cb |-> "onMessage", type |-> type, m |-> m, size |-> 0],
       [cb |-> "onMessageEnd", type |-> type, m |-> m, size |-> 0] >>

\* a faulty invoke: onMessageBegin is called before the payload is parsed
invoke_BeginsBeforeParse(header, buffers, maxIn) ==
    Only({
    IF ~parsed.ok
    THEN [success |-> FALSE,
          callbacks |-> << [cb |-> "onMessageBegin",
                            type |-> header.message_type,
                            m |-> [type |-> header.message_type, bytes |-> <<>>],
                            size |-> header.payload_wire_size] >>]
    ELSE [success |-> TRUE,
          callbacks |-> HandlerCalls(header.message_type,
                                     [type |-> header.message_type,
                                      bytes |-> parsed.bytes],
                                     header.payload_wire_size)]
    : parsed \in
        {IF header.compressed
         THEN Only({ParseFromArray(Take(res.payload, res.payload_size))
                    : res \in {decompressArray(Flatten(buffers), header, maxIn)} })
         ELSE ParseFromZeroCopyStream(
                  Skip(ZeroCopyInputStream(buffers), header.header_size).in)} })

\* a faulty invoke: the plain branch parses the stream without skipping the
\* header
invoke_KeepsHeader(header, buffers, maxIn) ==
    Only({
    IF ~parsed.ok THEN [success |-> FALSE, callbacks |-> <<>>]
    ELSE [success |-> TRUE,
          callbacks |-> HandlerCalls(header.message_type,
                                     [type |-> header.message_type,
                                      bytes |-> parsed.bytes],
                                     header.payload_wire_size)]
    : parsed \in
        {IF header.compressed
         THEN Only({ParseFromArray(Take(res.payload, res.payload_size))
                    : res \in {decompressArray(Flatten(buffers), header, maxIn)} })
         ELSE ParseFromZeroCopyStream(ZeroCopyInputStream(buffers))} })

\* a faulty invoke: the plain branch parses only the rest of the buffer the
\* header ends in
invoke_FirstBuffer(header, buffers, maxIn) ==
    Only({
    IF ~parsed.ok THEN [success |-> FALSE, callbacks |-> <<>>]
    ELSE [success |-> TRUE,
          callbacks |-> HandlerCalls(header.message_type,
                                     [type |-> header.message_type,
                                      bytes |-> parsed.bytes],
                                     header.payload_wire_size)]
    : parsed \in
        {IF header.compressed
         THEN Only({ParseFromArray(Take(res.payload, res.payload_size))
                    : res \in {decompressArray(Flatten(buffers), header, maxIn)} })
         ELSE ParseFromArray(
                  Skip(ZeroCopyInputStream(buffers), header.header_size).in.pos)} })

\* detail::invoke<T>(header, buffers, handler): [success, callbacks]
invoke(header, buffers, maxIn) ==
    Only({
    IF ~parsed.ok THEN [success |-> FALSE, callbacks |-> <<>>]
    ELSE [success |-> TRUE,
          callbacks |-> HandlerCalls(header.message_type,
                                     [type |-> header.message_type,
                                      bytes |-> parsed.bytes],
                                     header.payload_wire_size)]
    : parsed \in
        {IF header.compressed
         THEN Only({ParseFromArray(Take(res.payload, res.payload_size))
                    : res \in {decompressArray(Flatten(buffers), header, maxIn)} })
         ELSE ParseFromZeroCopyStream(
                  Skip(ZeroCopyInputStream(buffers), header.header_size).in)} })

\* megabytes(64)
megabytes64 == 64 * 1024 * 1024

\* a faulty invokeProtocolMessage: an unknown type is reported as a bad message
invokeProtocolMessage_UnknownIsError(buffers, maxIn) ==
    LET size == buffer_size(buffers)
        none == [consumed |-> 0, error |-> "none", callbacks |-> <<>>]
    IN  IF size = 0 THEN none
        ELSE Only({
             IF ~header.ok THEN none
             ELSE IF header.payload_wire_size > megabytes64
             THEN [none EXCEPT !.error = "message_size"]
             ELSE IF header.total_wire_size > size THEN none
             ELSE IF header.message_type \in RoutedTypes
             THEN Only({
                  [consumed |-> header.total_wire_size,
                   error |-> IF r.success THEN "none" ELSE "bad_message",
                   callbacks |-> r.callbacks]
                  : r \in {invoke(header, buffers, maxIn)} })
             ELSE [consumed |-> header.total_wire_size, error |-> "bad_message",
                   callbacks |-> <<>>]
             : header \in {parseMessageHeader(buffers, size)} })

\* a faulty invokeProtocolMessage: nothing is consumed when the payload does
\* not parse
invokeProtocolMessage_KeepsBadFrame(buffers, maxIn) ==
    LET size == buffer_size(buffers)
        none == [consumed |-> 0, error |-> "none", callbacks |-> <<>>]
    IN  IF size = 0 THEN none
        ELSE Only({
             IF ~header.ok THEN none
             ELSE IF header.payload_wire_size > megabytes64
             THEN [none EXCEPT !.error = "message_size"]
             ELSE IF header.total_wire_size > size THEN none
             ELSE IF header.message_type \in RoutedTypes
             THEN Only({
                  [consumed |-> IF r.success THEN header.total_wire_size ELSE 0,
                   error |-> IF r.success THEN "none" ELSE "bad_message",
                   callbacks |-> r.callbacks]
                  : r \in {invoke(header, buffers, maxIn)} })
             ELSE [consumed |-> header.total_wire_size, error |-> "none",
                   callbacks |-> << [cb |-> "onMessageUnknown",
                                     type |-> header.message_type] >>]
             : header \in {parseMessageHeader(buffers, size)} })

\* a faulty invokeProtocolMessage: does not wait for the whole message
invokeProtocolMessage_NoWait(buffers, maxIn) ==
    LET size == buffer_size(buffers)
        none == [consumed |-> 0, error |-> "none", callbacks |-> <<>>]
    IN  IF size = 0 THEN none
        ELSE Only({
             IF ~header.ok THEN none
             ELSE IF header.payload_wire_size > megabytes64
             THEN [none EXCEPT !.error = "message_size"]
             ELSE IF header.message_type \in RoutedTypes
             THEN Only({
                  [consumed |-> header.total_wire_size,
                   error |-> IF r.success THEN "none" ELSE "bad_message",
                   callbacks |-> r.callbacks]
                  : r \in {invoke(header, buffers, maxIn)} })
             ELSE [consumed |-> header.total_wire_size, error |-> "none",
                   callbacks |-> << [cb |-> "onMessageUnknown",
                                     type |-> header.message_type] >>]
             : header \in {parseMessageHeader(buffers, size)} })

\* a faulty invokeProtocolMessage: when six bytes are there and no header
\* parses, the first byte is dropped
invokeProtocolMessage_DropsBadByte(buffers, maxIn) ==
    LET size == buffer_size(buffers)
        none == [consumed |-> 0, error |-> "none", callbacks |-> <<>>]
    IN  IF size = 0 THEN none
        ELSE Only({
             IF ~header.ok
             THEN IF size >= headerBytes THEN [none EXCEPT !.consumed = 1] ELSE none
             ELSE IF header.payload_wire_size > megabytes64
             THEN [none EXCEPT !.error = "message_size"]
             ELSE IF header.total_wire_size > size THEN none
             ELSE IF header.message_type \in RoutedTypes
             THEN Only({
                  [consumed |-> header.total_wire_size,
                   error |-> IF r.success THEN "none" ELSE "bad_message",
                   callbacks |-> r.callbacks]
                  : r \in {invoke(header, buffers, maxIn)} })
             ELSE [consumed |-> header.total_wire_size, error |-> "none",
                   callbacks |-> << [cb |-> "onMessageUnknown",
                                     type |-> header.message_type] >>]
             : header \in {parseMessageHeader(buffers, size)} })

\* invokeProtocolMessage(buffers, handler): [consumed, error, callbacks]
invokeProtocolMessage(buffers, maxIn) ==
    LET size == buffer_size(buffers)
        none == [consumed |-> 0, error |-> "none", callbacks |-> <<>>]
    IN  IF size = 0 THEN none
        ELSE Only({
             IF ~header.ok THEN none
             ELSE IF header.payload_wire_size > megabytes64
             THEN [none EXCEPT !.error = "message_size"]
             ELSE IF header.total_wire_size > size THEN none
             ELSE IF header.message_type \in RoutedTypes
             THEN Only({
                  [consumed |-> header.total_wire_size,
                   error |-> IF r.success THEN "none" ELSE "bad_message",
                   callbacks |-> r.callbacks]
                  : r \in {invoke(header, buffers, maxIn)} })
             ELSE [consumed |-> header.total_wire_size, error |-> "none",
                   callbacks |-> << [cb |-> "onMessageUnknown",
                                     type |-> header.message_type] >>]
             : header \in {parseMessageHeader(buffers, size)} })

(***************************************************************************)
(* Bytes arriving at the demux                                              *)
(***************************************************************************)
\* getBuffer(Compressed::Off) of the Message arrives in some segmentation
SendPlain ==
    /\ phase = "none"
    /\ ~alreadyRequested_
    /\ offReturns' = offReturns \cup {buffer_}
    /\ \E segs \in Segmentations(buffer_) : bufs' = segs
    /\ lz4MaxIn' = LZ4F_TAKES_ALL
    /\ calls' = [calls EXCEPT ![1] = calls[1] + 1]
    /\ phase' = "received"
    /\ UNCHANGED <<payload, msgType, fault, buffer_, bufferCompressed_,
                   alreadyRequested_, mutex_, nthreads, pc, compressedSize,
                   onReturns, bodyRuns>>
    /\ UNCHANGED <<decoded, result, callbacks>>
    /\ UNCHANGED varintVars
    /\ UNCHANGED hdrVars
    /\ UNCHANGED lz4Vars

\* first bytes of a header: plain; reserved bits set; compressed with LZ4, with
\* no algorithm, with an unknown algorithm, with reserved bits set; all ones
RawFirstBytes == {0, 3, 4, 64, 144, 128, 160, 156, 255}

\* the low three bytes of the size field: 0, 1, 3, 8 and all ones
RawSizes ==
    {<<0, 0, 0>>, <<0, 0, 1>>, <<0, 0, 3>>, <<0, 0, 8>>, <<255, 255, 255>>}

\* a routed type and one the switch does not know
RawTypes == {mtPING, 99}

\* what follows a header: nothing, bytes that parse, bytes that do not, and a
\* compressed payload
RawBodies ==
    {<<>>, <<65>>, <<65, 66, 67>>, <<65, ProtoBad, 67>>, <<65, 66, 67, 68>>,
     write_varint(SizeT(3)) \o LZ4F_compressFrame(99, <<65, 65, 65>>).frame,
     write_varint(SizeT(3))
        \o LZ4F_compressFrame(99, <<ProtoBad, ProtoBad, ProtoBad>>).frame}

\* byte strings that are not built by a Message: a header of any kind, the
\* size field low or at its maximum, and a body that may be shorter or longer
\* than the size says; and the strings shorter than a header
RawStreams ==
    {<<b0>> \o sz \o <<0, t>> \o body :
        b0 \in RawFirstBytes, sz \in RawSizes, t \in RawTypes,
        body \in RawBodies}
    \cup {Take(<<b0, 0, 0, 1, 0, mtPING>>, n) : b0 \in RawFirstBytes, n \in 0..5}

\* bytes that no Message built arrive
ArriveRaw ==
    /\ phase = "raw"
    /\ \E stream \in RawStreams :
         \E segs \in Segmentations(stream) :
            bufs' = IF stream = <<>> THEN <<>> ELSE segs
    /\ lz4MaxIn' = LZ4F_TAKES_ALL
    /\ phase' = "received"
    /\ UNCHANGED <<decoded, result, callbacks>>
    /\ UNCHANGED msgVars
    /\ UNCHANGED varintVars
    /\ UNCHANGED hdrVars
    /\ UNCHANGED lz4Vars

\* payloads of the frames that arrive back to back
FramePayloads == {<<>>, <<65>>, <<66, 67, 68>>}

\* one whole frame of a routed type: plain, or compressed with LZ4
WholeFrames ==
    {setHeader(Len(q), mtPING, FALSE, Algorithm_LZ4) \o q : q \in FramePayloads}
    \cup {setHeader(Len(z), mtMANIFESTS, TRUE, Algorithm_LZ4) \o z :
            z \in {write_varint(SizeT(Len(q)))
                   \o LZ4F_compressFrame(LZ4F_compressFrameBound(Len(q)), q).frame
                   : q \in FramePayloads \ {<<>>}}}

\* two whole frames arrive back to back in the buffers
ArriveFrames ==
    /\ phase = "raw"
    /\ \E f1 \in WholeFrames, f2 \in WholeFrames :
         \E segs \in Segmentations(f1 \o f2) : bufs' = segs
    /\ lz4MaxIn' = LZ4F_TAKES_ALL
    /\ phase' = "received"
    /\ UNCHANGED <<decoded, result, callbacks>>
    /\ UNCHANGED msgVars
    /\ UNCHANGED varintVars
    /\ UNCHANGED hdrVars
    /\ UNCHANGED lz4Vars

\* the caller drops the bytes consumed and keeps the rest for its next call
Drain ==
    /\ phase = "invoked"
    /\ result.consumed > 0
    /\ result.consumed < buffer_size(bufs)
    /\ bufs' = <<Drop(Flatten(bufs), result.consumed)>>
    /\ phase' = "received"
    /\ UNCHANGED <<lz4MaxIn, decoded, result, callbacks>>
    /\ UNCHANGED msgVars
    /\ UNCHANGED varintVars
    /\ UNCHANGED hdrVars
    /\ UNCHANGED lz4Vars

\* one call of invokeProtocolMessage on the buffers
Invoke ==
    /\ phase = "received"
    /\ \E r \in {invokeProtocolMessage(bufs, lz4MaxIn)} :
          /\ result' = [consumed |-> r.consumed, error |-> r.error]
          /\ callbacks' = r.callbacks
    /\ phase' = "invoked"
    /\ UNCHANGED <<bufs, lz4MaxIn, decoded>>
    /\ UNCHANGED msgVars
    /\ UNCHANGED varintVars
    /\ UNCHANGED hdrVars
    /\ UNCHANGED lz4Vars

\* a Message is built, compressed by one thread, sent and decoded
SpecWire == InitMessage(1, {FALSE}) /\ [][Send \/ Decode]_vars

\* bytes arrive from a Message, plain or compressed, or from elsewhere, and
\* invokeProtocolMessage is called on them
InitDemux ==
    \/ InitMessage(1, {FALSE})
    \/ InitMessageOf({Mixed(1, 0)}, {mtPING}, 1, {FALSE}, "raw")

SpecDemux ==
    InitDemux
    /\ [][Send \/ SendPlain \/ ArriveRaw \/ ArriveFrames \/ Invoke \/ Drain]_vars

(***************************************************************************)
(* A connection's buffer that grows: bytes are appended behind those the    *)
(* demux has not consumed, and invokeProtocolMessage is called again.       *)
(***************************************************************************)
\* what a connection's buffer holds first: one byte of any kind, or a header
\* of any kind without its last byte
FrontStreams ==
    {<<b0>> \o rest : b0 \in RawFirstBytes, rest \in {<<>>, <<0, 0, 1, 0>>}}

\* the first bytes of a connection arrive
ArriveFront ==
    /\ phase = "raw"
    /\ \E stream \in FrontStreams : bufs' = <<stream>>
    /\ lz4MaxIn' = LZ4F_TAKES_ALL
    /\ phase' = "received"
    /\ UNCHANGED <<decoded, result, callbacks>>
    /\ UNCHANGED msgVars
    /\ UNCHANGED varintVars
    /\ UNCHANGED hdrVars
    /\ UNCHANGED lz4Vars

\* the bytes of one read: the end of a frame, the end of a frame and a byte
\* that starts no header, the start of another frame
AppendedChunks == {<<mtPING, 65>>, <<mtPING, 65, 4>>, <<0, 0, 0, 1, 0, mtPING>>}

\* the caller reads more bytes into the buffer, behind those not consumed,
\* before the demux is called or after it consumed nothing
AppendBytes ==
    /\ phase \in {"received", "invoked"}
    /\ phase = "invoked" => result.consumed = 0
    /\ Len(bufs) <= MaxAppends
    /\ \E more \in AppendedChunks : bufs' = Append(bufs, more)
    /\ phase' = "received"
    /\ UNCHANGED <<lz4MaxIn, decoded, result, callbacks>>
    /\ UNCHANGED msgVars
    /\ UNCHANGED varintVars
    /\ UNCHANGED hdrVars
    /\ UNCHANGED lz4Vars

\* a connection is read and drained call after call
SpecGrow ==
    InitMessageOf({Mixed(1, 0)}, {mtPING}, 1, {FALSE}, "raw")
    /\ [][ArriveFront \/ AppendBytes \/ Invoke \/ Drain]_vars

(***************************************************************************)
(* Compressed frames whose payload region does not decompress               *)
(***************************************************************************)
\* the payload region of a well-formed compressed frame of payload q
GoodRegion(q) ==
    write_varint(SizeT(Len(q)))
    \o LZ4F_compressFrame(LZ4F_compressFrameBound(Len(q)), q).frame

\* payload regions lz4fDecompress fails on: no byte at all; fewer than
\* varint_max bytes; a varint prefix without a last byte; a frame whose magic
\* number is wrong; a frame that yields fewer bytes than the prefix declares;
\* a frame cut inside its last block
BrokenRegions ==
    {<<>>,
     <<3, 4, 34>>,
     <<128, 128, 128, 128, 128, 4, 34, 77, 24, 0>>,
     <<3, 5, 34, 77, 24, 3, 65, 0>>,
     write_varint(SizeT(4)) \o Drop(GoodRegion(<<65, 65, 65>>), 1),
     Take(GoodRegion(<<65, 66, 67, 68>>), Len(GoodRegion(<<65, 66, 67, 68>>)) - 2)}

\* compressed frames of a routed type that cannot be decompressed: a broken
\* payload region under an LZ4 header, or a well-formed region under a header
\* naming another algorithm
BrokenFrames ==
    {setHeader(Len(z), mtMANIFESTS, TRUE, Algorithm_LZ4) \o z : z \in BrokenRegions}
    \cup {setHeader(Len(GoodRegion(<<65, 65, 65>>)), mtMANIFESTS, TRUE, a)
             \o GoodRegion(<<65, 65, 65>>) : a \in {Algorithm_None, 2}}

\* a compressed frame arrives, damaged or intact
ArriveBroken ==
    /\ phase = "raw"
    /\ \E f \in BrokenFrames
              \cup {setHeader(Len(GoodRegion(<<65, 65, 65>>)), mtMANIFESTS, TRUE,
                              Algorithm_LZ4) \o GoodRegion(<<65, 65, 65>>)} :
         \E segs \in Segmentations(f) : bufs' = segs
    /\ \E m \in DecoderTakes : lz4MaxIn' = m
    /\ phase' = "received"
    /\ UNCHANGED <<decoded, result, callbacks>>
    /\ UNCHANGED msgVars
    /\ UNCHANGED varintVars
    /\ UNCHANGED hdrVars
    /\ UNCHANGED lz4Vars

\* damaged compressed frames reach invokeProtocolMessage
SpecBroken ==
    InitMessageOf({Mixed(1, 0)}, {mtPING}, 1, {FALSE}, "raw")
    /\ [][ArriveBroken \/ Invoke]_vars

(***************************************************************************)
(* The varint codec called on its own: write_varint on a std::size_t value, *)
(* read_varint on the buffer written or on any bytes, with a buflen.        *)
(***************************************************************************)
\* 127^4, the smallest value of five base-127 digits
Pow127_4 == 127 * 127 * 127 * 127

\* values around the digit counts and the integer widths: 127^4 - 1, 127^4,
\* 2^31 - 1, 2^31, 2^32 - 1, 2^32, 127^5 - 1, 127^5, 2^64 - 1
WideValues ==
    {SizeT(Pow127_4 - 1), SizeT(Pow127_4),
     <<65535, 32767, 0, 0>>, <<0, 32768, 0, 0>>,
     <<65535, 65535, 0, 0>>, <<0, 0, 1, 0>>,
     LimbMulAdd(SizeT(Pow127_4 - 1), 127, 126, 1),
     LimbMulAdd(SizeT(Pow127_4), 127, 0, 1),
     <<65535, 65535, 65535, 65535>>}

\* the values given to write_varint
VarintValues ==
    {SizeT(n) : n \in 0..MaxSmallValue}
    \cup {SizeT(127 * 127 * 127 + k - 1) : k \in 0..1}
    \cup WideValues

RawVarintBytes == {0, 1, 127, 128, 129, 255}

\* every byte string up to MaxRawLen over RawVarintBytes
ShortRawVarints ==
    UNION {[1..k -> RawVarintBytes] : k \in 1..MaxRawLen}

\* buffers without a byte whose high bit is clear
AllHighRawVarints ==
    {[i \in 1..k |-> b] : k \in 1..(varint_max + 1), b \in {128, 255}}

\* buffers of nine to eleven digits, beyond what a 64-bit value needs
LongRawVarints ==
    {[i \in 1..k |-> IF i < k THEN b ELSE e] :
        k \in 9..11, b \in {128, 129, 254}, e \in {1, 64, 126}}

RawVarints == ShortRawVarints \cup AllHighRawVarints \cup LongRawVarints

\* the buflen a caller passes: up to the bytes it holds, or the size of the
\* scratch array when the varint ends inside the bytes it holds
Buflens(buf) ==
    (0..Len(buf))
    \cup (IF \E i \in 1..Len(buf) : buf[i] < 128 THEN {varint_max} ELSE {})

\* write_varint(p, v)
WriteVarint ==
    /\ varintPhase = "idle"
    /\ \E v \in VarintValues :
        /\ varintValue' = v
        /\ varintBuf' = write_varint(v)
        /\ varintWritten' = Len(write_varint(v))
    /\ varintPhase' = "written"
    /\ UNCHANGED <<varintBuflen, varintRead>>
    /\ UNCHANGED msgVars
    /\ UNCHANGED inVars
    /\ UNCHANGED hdrVars
    /\ UNCHANGED lz4Vars

\* bytes that were not written by write_varint reach the caller
RawVarint ==
    /\ varintPhase = "idle"
    /\ varintBuf' \in RawVarints
    /\ varintPhase' = "raw"
    /\ UNCHANGED <<varintValue, varintWritten, varintBuflen, varintRead>>
    /\ UNCHANGED msgVars
    /\ UNCHANGED inVars
    /\ UNCHANGED hdrVars
    /\ UNCHANGED lz4Vars

\* read_varint(buf, buflen, t)
ReadVarint ==
    /\ varintPhase \in {"written", "raw"}
    /\ \E b \in Buflens(varintBuf) :
        /\ varintBuflen' = b
        /\ varintRead' = read_varint(varintBuf, b)
    /\ varintPhase' = "read"
    /\ UNCHANGED <<varintValue, varintBuf, varintWritten>>
    /\ UNCHANGED msgVars
    /\ UNCHANGED inVars
    /\ UNCHANGED hdrVars
    /\ UNCHANGED lz4Vars

InitVarintCalls ==
    InitMessageOf({Mixed(1, 0)}, {mtPING}, 1, {FALSE}, "varint")

SpecVarint ==
    InitVarintCalls /\ [][WriteVarint \/ RawVarint \/ ReadVarint]_vars

(***************************************************************************)
(* The header codec called on its own: setHeader on its arguments,          *)
(* parseMessageHeader on the six bytes written or on any bytes.             *)
(***************************************************************************)
\* the largest payload size of the 26-bit field, 0x03FFFFFF
MaxPayloadSize == 67108863

\* payload sizes around the byte boundaries of the size field, and one above
\* the field
HeaderSizes ==
    {0, 1, 70, 71, 255, 256, 65535, 65536, 16777215, 16777216,
     MaxPayloadSize, MaxPayloadSize + 1}

\* 16-bit message types around the byte boundary
HeaderTypes == {0, mtPING, mtVALIDATORLIST, 255, 256, 65535}

\* the ids of the three-bit algorithm field
AlgorithmIds == 0..7

\* what follows byte 0 in bytes that setHeader did not write
RawHeaderTails ==
    {<<0, 0, 0, 0, 3>>, <<0, 0, 8, 0, 99>>, <<255, 255, 255, 255, 255>>}

\* setHeader(in, messageBytes, type, compressed, comprAlgorithm)
SetHeader ==
    /\ hdrPhase = "idle"
    /\ \E n \in HeaderSizes, t \in HeaderTypes, c \in BOOLEAN,
          a \in AlgorithmIds :
        /\ hdrArgs' = [set |-> TRUE, messageBytes |-> n, type |-> t,
                       compressed |-> c, comprAlgorithm |-> a]
        /\ hdrIn' = setHeader(n, t, c, a)
    /\ hdrPhase' = "written"
    /\ UNCHANGED hdr
    /\ UNCHANGED msgVars
    /\ UNCHANGED inVars
    /\ UNCHANGED varintVars
    /\ UNCHANGED lz4Vars

\* bytes that were not written by setHeader reach the parser: any byte 0,
\* whole or cut short
RawHeader ==
    /\ hdrPhase = "idle"
    /\ \E b0 \in 0..255, tail \in RawHeaderTails, k \in 1..headerBytes :
        hdrIn' = Take(<<b0>> \o tail, k)
    /\ hdrPhase' = "raw"
    /\ UNCHANGED <<hdrArgs, hdr>>
    /\ UNCHANGED msgVars
    /\ UNCHANGED inVars
    /\ UNCHANGED varintVars
    /\ UNCHANGED lz4Vars

\* parseMessageHeader(bufs, size) on the bytes, held in one buffer or in two
ParseHeader ==
    /\ hdrPhase \in {"written", "raw"}
    /\ \E cut \in 0..(Len(hdrIn) - 1) :
        LET buffers == IF cut = 0 THEN <<hdrIn>>
                       ELSE <<Take(hdrIn, cut), Drop(hdrIn, cut)>>
        IN  hdr' = parseMessageHeader(buffers, buffer_size(buffers))
    /\ hdrPhase' = "parsed"
    /\ UNCHANGED <<hdrArgs, hdrIn>>
    /\ UNCHANGED msgVars
    /\ UNCHANGED inVars
    /\ UNCHANGED varintVars
    /\ UNCHANGED lz4Vars

InitHeaderCalls ==
    InitMessageOf({Mixed(1, 0)}, {mtPING}, 1, {FALSE}, "header")

SpecHeader ==
    InitHeaderCalls /\ [][SetHeader \/ RawHeader \/ ParseHeader]_vars

(***************************************************************************)
(* The LZ4 codec called on its own: lz4fCompress on a buffer and its size,  *)
(* lz4fDecompress on a stream that stands behind a frame header, with the   *)
(* payload size of that header as inSize.                                   *)
(***************************************************************************)
\* payloads of one block, of two blocks, and of a size whose varint takes two
\* bytes
CodecPayloads == {<<65, 65, 65>>, Mixed(6, 2), Mixed(130, 0)}

\* sizes above UINT32_MAX: 2^32, 2^32 + 1, 127^5, 2^64 - 1
HugeSizes ==
    {<<0, 0, 1, 0>>, <<1, 0, 1, 0>>, LimbMulAdd(SizeT(Pow127_4), 127, 0, 1),
     <<65535, 65535, 65535, 65535>>}

\* the (in, inSize) pairs given to lz4fCompress: a buffer and its length, or
\* a size above UINT32_MAX, for which the bytes at in are never read
CompressInputs ==
    {<<q, SizeT(Len(q))>> : q \in CodecPayloads \cup {<<>>}}
    \cup {<<(<<>>), n>> : n \in HugeSizes}

\* lz4fCompress(in, inSize, bf)
CallCompress ==
    /\ lz4Phase = "idle"
    /\ \E a \in CompressInputs :
         /\ lz4Args' = [op |-> "compress", in |-> a[1], inSize |-> a[2]]
         /\ lz4Call' = lz4fCompress(a[1], a[2], FALSE)
    /\ lz4Phase' = "compressed"
    /\ UNCHANGED msgVars
    /\ UNCHANGED inVars
    /\ UNCHANGED varintVars
    /\ UNCHANGED hdrVars

\* payload regions: well formed; damaged; a prefix that declares fewer bytes
\* than the frame holds; a prefix of five bytes that declares 2^32 or 127^5
CodecRegions ==
    {GoodRegion(q) : q \in CodecPayloads}
    \cup BrokenRegions
    \cup {write_varint(SizeT(2)) \o Drop(GoodRegion(<<65, 65, 65>>), 1)}
    \cup {write_varint(n) \o Drop(GoodRegion(<<65, 65, 65>>), 1) :
             n \in {<<0, 0, 1, 0>>, LimbMulAdd(SizeT(Pow127_4), 127, 0, 1)}}

\* what stands behind the frame in the stream: nothing, or the next frame
Trailers == {<<>>, setHeader(1, mtPING, FALSE, Algorithm_LZ4) \o <<65>>}

\* the inSize given for the region z: its length, as the header of a whole
\* frame says, or half of it
Caps(z) == {Len(z), Len(z) \div 2}

\* what stands before the payload region in the stream and is skipped before
\* the call: nothing, or the frame header, as in do_test
Leads(z) == {<<>>, setHeader(Len(z), mtMANIFESTS, TRUE, Algorithm_LZ4)}

\* lz4fDecompress(in, inSize, bf) on a stream whose cursor is at the payload
\* region
CallDecompress ==
    /\ lz4Phase = "idle"
    /\ \E z \in CodecRegions, tr \in Trailers, m \in DecoderTakes :
         \E cap \in Caps(z), lead \in Leads(z) :
            \E segs \in Segmentations(lead \o z \o tr) :
               \E in \in {Skip(ZeroCopyInputStream(
                                  IF lead \o z \o tr = <<>> THEN <<>> ELSE segs),
                              Len(lead)).in} :
                  /\ lz4Args' = [op |-> "decompress", in |-> in, inSize |-> cap,
                                 maxIn |-> m, region |-> z]
                  /\ lz4Call' = lz4fDecompress(in, cap, m)
    /\ lz4Phase' = "decompressed"
    /\ UNCHANGED msgVars
    /\ UNCHANGED inVars
    /\ UNCHANGED varintVars
    /\ UNCHANGED hdrVars

InitCodecCalls ==
    InitMessageOf({Mixed(1, 0)}, {mtPING}, 1, {FALSE}, "codec")

SpecCodec == InitCodecCalls /\ [][CallCompress \/ CallDecompress]_vars

(***************************************************************************)
(* Claims about the outbound Message                                        *)
(***************************************************************************)
\* the compressed payload of the message: varint prefix plus LZ4 frame
CompressedForm ==
    write_varint(SizeT(Len(payload)))
    \o LZ4F_compressFrame(LZ4F_compressFrameBound(Len(payload)), payload).frame

\* compression is attempted and saves bytes
CompressionPays ==
    compressible(msgType, Len(payload)) /\ Len(CompressedForm) < Len(payload)

HeaderOf(bytes) == parseMessageHeader(<<bytes>>, Len(bytes))

\* C3: a buffer returned by getBuffer(Compressed::On) carries the compressed
\* flag exactly when the message is compressible and its compressed payload
\* (varint prefix plus LZ4 frame) is strictly shorter than the payload; in
\* every other case the bytes are those of getBuffer(Compressed::Off).
C3_FlagIffStrictlySmaller ==
    \A r \in onReturns :
        /\ HeaderOf(r.bytes).ok
        /\ HeaderOf(r.bytes).compressed <=> CompressionPays
        /\ CompressionPays => Drop(r.bytes, headerBytes) = CompressedForm
        /\ ~CompressionPays => r.bytes = MessageCtor(payload, msgType)

\* a compressed buffer has been returned
C3_Witness ==
    /\ CompressionPays
    /\ \E r \in onReturns : HeaderOf(r.bytes).compressed

\* C4: when the compression call fails (compression::compress returns 0),
\* the compressed buffer is left empty and getBuffer(Compressed::On) returns
\* the uncompressed buffer.
C4_FailureLeavesCompressedEmpty ==
    (fault /\ compressible(msgType, Len(payload)))
        => /\ \A r \in onReturns : r.bytes = buffer_
           /\ alreadyRequested_ => bufferCompressed_ = <<>>

\* C5: the body of compress() runs at most once, and every
\* getBuffer(Compressed::On) call on the Message returns the same bytes.
C5_OnceAndSameBytes ==
    /\ bodyRuns <= 1
    /\ Cardinality({r.bytes : r \in onReturns}) <= 1

\* the compressed buffer in its final, framed state
FinalFramed(bytes) ==
    /\ HeaderOf(bytes).ok
    /\ HeaderOf(bytes).compressed
    /\ HeaderOf(bytes).payload_wire_size = Len(bytes) - headerBytes

\* C6: a compressed buffer returned by getBuffer(Compressed::On) is the final
\* framed one, never the buffer as it is between the factory's resize and the
\* final resize and header write, and it is not modified afterwards.
C6_NoIntermediateBuffer ==
    \A r \in onReturns :
        r.which = "compressed" => FinalFramed(r.bytes) /\ r.bytes = bufferCompressed_

(***************************************************************************)
(* Claims about the round trip                                              *)
(***************************************************************************)
\* C1: for a compressible type and a payload longer than 70 bytes, parsing the
\* header of getBuffer(Compressed::On) and decompressing its payload region
\* gives back the payload, however the bytes are split into chunks.
C1_CompressedRoundTrip ==
    (phase = "decoded" /\ compressible(msgType, Len(payload)))
        => /\ decoded.ok
           /\ decoded.bytes = payload
           /\ decoded.bytes = Drop(buffer_, headerBytes)

\* a compressed buffer in three segments was decompressed by a decoder that
\* leaves input unconsumed
C1_Witness ==
    /\ phase = "decoded"
    /\ decoded.compressed
    /\ decoded.ok
    /\ Len(bufs) = 3
    /\ lz4MaxIn = 3

(***************************************************************************)
(* Claims about the inbound demux (SpecDemux)                               *)
(***************************************************************************)
\* the bytes the demux was called on
Wire == Flatten(bufs)

\* the payload size a header declares: the low 26 bits of its first four bytes
DeclaredPayloadSize(w) ==
    (((w[1] % 4) * 256 + w[2]) * 256 + w[3]) * 256 + w[4]

\* the first four bytes of a header read as one number, for a header whose
\* top bit is clear
SizeWord(w) == ((w[1] * 256 + w[2]) * 256 + w[3]) * 256 + w[4]

NoError(consumed) == [consumed |-> consumed, error |-> "none"]

\* the callbacks of one delivery of the message (type, bytes)
Delivered(type, bytes, wireSize) ==
    HandlerCalls(type, [type |-> type, bytes |-> bytes], wireSize)

\* C2: for every message type t and payload p, invokeProtocolMessage on the
\* bytes of getBuffer(Compressed::Off) delivers a message parsed from exactly
\* p to the handler and returns consumed = 6 + |p| with no error.
C2_PlainRoundTrip ==
    (phase = "invoked" /\ Wire = buffer_) =>
        /\ result = NoError(headerBytes + Len(payload))
        /\ callbacks = Delivered(msgType, payload, Len(payload))

\* a plain buffer of a payload above the compression threshold, invoked in
\* three segments
C2_Witness ==
    /\ phase = "invoked"
    /\ Wire = buffer_
    /\ Len(payload) > 70
    /\ Len(bufs) = 3
    /\ result.consumed = Len(buffer_)

\* C7: for every input and segmentation the consumed count is 0 or exactly
\* 6 + the payload size of the parsed header; it is non-zero only if the
\* buffer held that many bytes; a call returning 0 invokes no callback.
C7_ConsumedWholeOrNothing ==
    phase = "invoked" =>
        /\ \/ result.consumed = 0
           \/ /\ Len(Wire) >= headerBytes
              /\ result.consumed = headerBytes + DeclaredPayloadSize(Wire)
              /\ Len(Wire) >= result.consumed
        /\ result.consumed = 0 => callbacks = <<>>

\* a message consumed from a segmented buffer that holds more bytes than the
\* message
C7_Witness ==
    /\ phase = "invoked"
    /\ result.consumed # 0
    /\ Len(Wire) > result.consumed
    /\ Len(bufs) = 3

\* C8: with fewer than 6 bytes in the buffers, of any content,
\* invokeProtocolMessage returns consumed = 0, no error, and invokes no
\* callback.
C8_ShortBufferNeedsMore ==
    (phase = "invoked" /\ Len(Wire) < headerBytes) =>
        /\ result = NoError(0)
        /\ callbacks = <<>>

\* five bytes of a compressed header in two segments
C8_Witness ==
    /\ phase = "invoked"
    /\ Len(Wire) = 5
    /\ Wire[1] = 144
    /\ Len(bufs) = 2

\* C9: a header declaring a payload size above 64 MiB gets consumed = 0 with
\* the message_size error and no callback.  The declared size is read from
\* the first four header bytes of a header without the compressed bit.
C9_OversizeIsMessageSize ==
    (/\ phase = "invoked"
     /\ Len(Wire) >= headerBytes
     /\ Wire[1] < 128
     /\ SizeWord(Wire) > megabytes64) =>
        /\ result = [consumed |-> 0, error |-> "message_size"]
        /\ callbacks = <<>>

\* the bytes of the one valid message the Message holds: its plain buffer or
\* its compressed buffer
OneValidMessage(w) ==
    \/ w = buffer_
    \/ bufferCompressed_ # <<>> /\ w = bufferCompressed_

\* C10: for a buffer carrying exactly one valid message, however its bytes
\* are split into segments, consumed = 6 + payload size, there is no error
\* and onMessage is invoked exactly once, with the same message.
C10_SegmentationIndependent ==
    (phase = "invoked" /\ OneValidMessage(Wire)) =>
        /\ result = NoError(headerBytes + DeclaredPayloadSize(Wire))
        /\ result.consumed = Len(Wire)
        /\ callbacks = Delivered(msgType, payload, DeclaredPayloadSize(Wire))
        /\ Cardinality({i \in 1..Len(callbacks) :
                            callbacks[i].cb = "onMessage"}) = 1

\* a compressed message invoked in three segments, the first of them shorter
\* than the header
C10_Witness ==
    /\ phase = "invoked"
    /\ bufferCompressed_ # <<>>
    /\ Wire = bufferCompressed_
    /\ Len(bufs) = 3
    /\ Len(bufs[1]) < headerBytes
    /\ result.consumed = Len(Wire)

\* the names of the callbacks made, in order
CallbackNames == [i \in 1..Len(callbacks) |-> callbacks[i].cb]

\* the first byte can start a header: the compressed bit is set, or bits 6..2
\* are all clear
ValidFirstByte(b) == b >= 128 \/ b \div 4 = 0

\* the type a header declares
DeclaredType(w) == w[5] * 256 + w[6]

\* the bytes hold a whole frame: a header with a valid first byte and at least
\* the payload bytes it declares
CompleteFrame(w) ==
    /\ Len(w) >= headerBytes
    /\ ValidFirstByte(w[1])
    /\ Len(w) >= headerBytes + DeclaredPayloadSize(w)

\* the payload region of a complete frame
PayloadRegion(w) == Slice(w, headerBytes + 1, headerBytes + DeclaredPayloadSize(w))

\* the payloads the payload codec rejects that arrive compressed
BadPayloads == {<<ProtoBad, ProtoBad, ProtoBad>>}

\* the codec rejects the payload of the complete frame w: a plain payload
\* holding ProtoBad, or the compressed form of a payload holding it
PayloadRejected(w) ==
    IF w[1] < 128
    THEN \E i \in 1..DeclaredPayloadSize(w) : PayloadRegion(w)[i] = ProtoBad
    ELSE /\ (w[1] \div 16) % 8 = Algorithm_LZ4
         /\ \E q \in BadPayloads :
               PayloadRegion(w) =
                  write_varint(SizeT(Len(q)))
                  \o LZ4F_compressFrame(LZ4F_compressFrameBound(Len(q)), q).frame

\* C11: when a message of a known type is parsed successfully the handler gets
\* onMessageBegin, onMessage, onMessageEnd, once each and in this order, and
\* not onMessageUnknown; when the payload does not parse no callback is made.
C11_CallbackOrder ==
    (phase = "invoked" /\ CompleteFrame(Wire)
        /\ DeclaredType(Wire) \in RoutedTypes) =>
        /\ result.error = "none" =>
              CallbackNames = <<"onMessageBegin", "onMessage", "onMessageEnd">>
        /\ result.error # "none" => callbacks = <<>>
        /\ PayloadRejected(Wire) => callbacks = <<>>

\* a known message parsed from three segments and delivered
C11_Witness ==
    /\ phase = "invoked"
    /\ CompleteFrame(Wire)
    /\ DeclaredType(Wire) \in RoutedTypes
    /\ result.error = "none"
    /\ Len(callbacks) = 3
    /\ Len(bufs) = 3

\* C12: for a complete frame whose type is not a routed type,
\* onMessageUnknown(type) is called exactly once, none of onMessageBegin,
\* onMessage, onMessageEnd is called, and the result is consumed = 6 + payload
\* size with no error.
C12_UnknownTypeDelivered ==
    (phase = "invoked" /\ CompleteFrame(Wire)
        /\ DeclaredType(Wire) \notin RoutedTypes) =>
        /\ callbacks = << [cb |-> "onMessageUnknown",
                           type |-> DeclaredType(Wire)] >>
        /\ result = NoError(headerBytes + DeclaredPayloadSize(Wire))

\* a frame of an unknown type with a payload, in two segments
C12_Witness ==
    /\ phase = "invoked"
    /\ CompleteFrame(Wire)
    /\ DeclaredType(Wire) \notin RoutedTypes
    /\ DeclaredPayloadSize(Wire) = 3
    /\ Len(bufs) = 2
    /\ Len(callbacks) = 1

\* C13: when a complete frame of a known type holds a payload the payload
\* codec rejects, the result is consumed = 6 + payload size, not 0, with the
\* bad_message error.
C13_BadPayloadConsumed ==
    (phase = "invoked" /\ CompleteFrame(Wire)
        /\ DeclaredType(Wire) \in RoutedTypes /\ PayloadRejected(Wire)) =>
        result = [consumed |-> headerBytes + DeclaredPayloadSize(Wire),
                  error |-> "bad_message"]

\* a compressed frame whose payload the codec rejects
C13_Witness ==
    /\ phase = "invoked"
    /\ CompleteFrame(Wire)
    /\ DeclaredType(Wire) \in RoutedTypes
    /\ Wire[1] >= 128
    /\ PayloadRejected(Wire)
    /\ result.error = "bad_message"

\* C14: when the first byte is not a valid header start (compressed bit clear
\* and one of bits 6..2 set), the result is consumed = 0 with no error and no
\* callback is made.
C14_InvalidFirstByte ==
    (phase = "invoked" /\ Len(Wire) >= 1 /\ ~ValidFirstByte(Wire[1])) =>
        /\ result = NoError(0)
        /\ callbacks = <<>>

\* an algorithm bit without the compressed bit, on bytes that would otherwise
\* be a whole frame
C14_Witness ==
    /\ phase = "invoked"
    /\ Len(Wire) >= headerBytes
    /\ Len(Wire) >= headerBytes + DeclaredPayloadSize(Wire)
    /\ Wire[1] = 64
    /\ Len(bufs) = 2

\* C15: a buffer whose header byte 0 is 0x04 (compressed bit clear, a reserved
\* bit set) gets consumed = 0 together with an error, distinguishable from the
\* no-error outcome that asks for more bytes.
C15_ReservedBitIsError ==
    (phase = "invoked" /\ Len(Wire) >= headerBytes /\ Wire[1] = 4) =>
        /\ result.consumed = 0
        /\ result.error # "none"

(***************************************************************************)
(* Claims about the varint codec                                            *)
(***************************************************************************)
\* the value is at most 2^32 - 1, what lz4fCompress accepts as inSize
FitsUint32(v) == v[3] = 0 /\ v[4] = 0

\* write_varint has written the buffer
Wrote == varintPhase \in {"written", "read"} /\ varintWritten > 0

\* read_varint has read the buffer write_varint wrote
WroteAndRead == varintPhase = "read" /\ varintWritten > 0

\* C16: for every v in [0, 2^32 - 1], read_varint on the bytes write_varint(v)
\* wrote, with buflen the number of bytes written and with buflen 5, returns
\* the number of bytes written and yields v.
C16_VarintRoundTrip ==
    (/\ WroteAndRead
     /\ FitsUint32(varintValue)
     /\ varintBuflen \in {varintWritten, varint_max}) =>
        varintRead = [n |-> varintWritten, t |-> varintValue]

\* 2^32 - 1 read back from its five bytes
C16_Witness ==
    /\ WroteAndRead
    /\ varintValue = <<65535, 65535, 0, 0>>
    /\ varintBuflen = varint_max
    /\ varintRead = [n |-> varint_max, t |-> <<65535, 65535, 0, 0>>]

\* C17: write_varint(0) writes the single byte 0x00 and returns 1; read_varint
\* on a buffer that starts with 0x00 returns 1 with value 0.
C17_ZeroIsOneByte ==
    /\ (Wrote /\ varintValue = SizeT(0)) =>
           (varintBuf = <<0>> /\ varintWritten = 1)
    /\ (/\ varintPhase = "read"
        /\ varintBuflen >= 1
        /\ varintBuf[1] = 0) =>
           varintRead = [n |-> 1, t |-> SizeT(0)]

\* 0 written and read back
C17_Witness ==
    /\ WroteAndRead
    /\ varintValue = SizeT(0)
    /\ varintBuf = <<0>>
    /\ varintBuflen = 1
    /\ varintRead.n = 1

\* C18: for every v <= 2^32 - 1 write_varint writes at most 5 bytes, with the
\* continuation bit set on every byte except the last, so the five-byte
\* scratch array of lz4fCompress is never overrun for an inSize it accepts.
C18_AtMostFiveBytes ==
    (Wrote /\ FitsUint32(varintValue)) =>
        /\ varintWritten = Len(varintBuf)
        /\ varintWritten <= varint_max
        /\ \A i \in 1..Len(varintBuf) :
               (varintBuf[i] >= 128) <=> (i < Len(varintBuf))

\* 2^32 - 1 fills the scratch array
C18_Witness ==
    /\ Wrote
    /\ varintValue = <<65535, 65535, 0, 0>>
    /\ varintWritten = varint_max

\* C19: read_varint returns 0 whenever no byte with a clear high bit is among
\* the first buflen bytes; a six-byte input of high-bit bytes returns 0.
C19_NoTerminatorIsZero ==
    (/\ varintPhase = "read"
     /\ \A i \in 1..Min(varintBuflen, Len(varintBuf)) : varintBuf[i] >= 128) =>
        varintRead.n = 0

\* six bytes, each with the high bit set
C19_Witness ==
    /\ varintPhase = "read"
    /\ Len(varintBuf) = varint_max + 1
    /\ varintBuflen = varint_max + 1
    /\ \A i \in 1..Len(varintBuf) : varintBuf[i] >= 128
    /\ varintRead.n = 0

\* the carry out of the 64 bits of t * m + a
RECURSIVE LimbCarry(_, _, _, _)
LimbCarry(t, m, a, i) ==
    IF i > 4 THEN a
    ELSE LimbCarry(t, m, (t[i] * m + a) \div LimbBase, i + 1)

\* some step t = t * 127 + digit of the second loop of read_varint, run over
\* the n bytes of p from t, does not fit the 64 bits of t
RECURSIVE AccumWraps(_, _, _)
AccumWraps(p, n, t) ==
    IF n = 0 THEN FALSE
    ELSE LET d == BitAnd(p[n], 127)
             t1 == LimbMulAdd(t, 127, d, 1)
         IN  \/ LimbCarry(t, 127, d, 1) # 0
             \/ (~LimbLe(t1, t) /\ AccumWraps(p, n - 1, t1))

\* read_varint reached its second loop: the bytes scanned
AccumBytes ==
    LET s == varint_scan(varintBuf, varintBuflen, 0)
    IN  IF varintBuflen >= 1 /\ s.ok /\ s.n + 1 <= varintBuflen
           /\ ~(s.n = 0 /\ varintBuf[1] = 0)
        THEN s.n + 1 ELSE 0

\* C20: read_varint returns 0 whenever accumulating t = t * 127 + digit wraps
\* the width of the accumulator at any step.
C20_WrapReturnsZero ==
    (/\ varintPhase = "read"
     /\ AccumWraps(varintBuf, AccumBytes, SizeT(0))) =>
        varintRead.n = 0

(***************************************************************************)
(* Claims about the header codec                                            *)
(***************************************************************************)
\* parseMessageHeader has run on six bytes that setHeader wrote for a payload
\* size of the 26-bit field
SetAndParsed ==
    /\ hdrPhase = "parsed"
    /\ hdrArgs.set
    /\ hdrArgs.messageBytes <= MaxPayloadSize

\* the header that carries the size and the type given to setHeader
SizeAndTypeKept ==
    /\ hdr.ok
    /\ hdr.payload_wire_size = hdrArgs.messageBytes
    /\ hdr.message_type = hdrArgs.type
    /\ hdr.header_size = headerBytes
    /\ hdr.total_wire_size = headerBytes + hdrArgs.messageBytes

\* C21, as stated: for every payload size <= 0x03FFFFFF, 16-bit type, value of
\* the compressed flag and algorithm id, parseMessageHeader on the six bytes
\* setHeader wrote returns a header whose size, type, compressed flag and
\* algorithm equal the inputs, with header_size 6 and total_wire_size 6 + size.
C21_HeaderRoundTrip_Original ==
    SetAndParsed =>
        /\ SizeAndTypeKept
        /\ hdr.compressed = hdrArgs.compressed
        /\ hdr.algorithm = hdrArgs.comprAlgorithm

\* C21, amended: the same, except that the algorithm returned equals the input
\* only when the compressed flag is set; when it is clear the algorithm
\* returned is 0 (none) whatever id was given.
C21_HeaderRoundTrip ==
    SetAndParsed =>
        /\ SizeAndTypeKept
        /\ hdr.compressed = hdrArgs.compressed
        /\ hdr.algorithm =
               (IF hdrArgs.compressed THEN hdrArgs.comprAlgorithm
                ELSE Algorithm_None)

\* the largest size with the compressed flag and the largest algorithm id
C21_Witness ==
    /\ SetAndParsed
    /\ hdrArgs.messageBytes = MaxPayloadSize
    /\ hdrArgs.compressed
    /\ hdrArgs.comprAlgorithm = 7
    /\ hdrArgs.type = 65535
    /\ hdr.algorithm = 7
    /\ hdr.total_wire_size = headerBytes + MaxPayloadSize

\* C22: parseMessageHeader returns no header for every 6-byte input whose byte
\* 0 has the compressed bit clear and any of bits 6..2 set, whatever the other
\* bytes are.
C22_InvalidByte0NoHeader ==
    (/\ hdrPhase = "parsed"
     /\ Len(hdrIn) = headerBytes
     /\ hdrIn[1] < 128
     /\ hdrIn[1] \div 4 # 0) =>
        hdr = NoHeader

\* byte 0 = 0x04, the lowest of the bits 6..2, on six bytes
C22_Witness ==
    /\ hdrPhase = "parsed"
    /\ hdrIn = <<4, 255, 255, 255, 255, 255>>
    /\ hdr = NoHeader

\* C23: parseMessageHeader returns no header for every header with the
\* compressed bit set whose three-bit algorithm field is not LZ4 (1).
C23_UnknownAlgorithmRejected ==
    (/\ hdrPhase = "parsed"
     /\ Len(hdrIn) = headerBytes
     /\ hdrIn[1] >= 128
     /\ (hdrIn[1] \div 16) % 8 # Algorithm_LZ4) =>
        ~hdr.ok

(***************************************************************************)
(* Claims about the compression decision and the buffers of a Message       *)
(***************************************************************************)
\* the payload is longer than 70 bytes and the type is one of the seven
LongAndListed ==
    /\ Len(payload) > 70
    /\ msgType \in {mtMANIFESTS, mtENDPOINTS, mtTRANSACTION, mtGET_LEDGER,
                    mtLEDGER_DATA, mtGET_OBJECTS, mtVALIDATORLIST}

\* C24: compression is attempted exactly when the payload is longer than 70
\* bytes and the type is one of manifests, endpoints, transaction, get_ledger,
\* ledger_data, get_objects, validator_list; for every other (type, size)
\* getBuffer(Compressed::On) returns the bytes getBuffer(Compressed::Off)
\* returns, and byte 0 of their header has its top six bits clear.
C24_CompressionDecision ==
    /\ (\E t \in Threads : pc[t] \in {"compress", "tail"}) => LongAndListed
    /\ (LongAndListed /\ onReturns # {}) => compressedSize > 0
    /\ ~LongAndListed =>
           /\ compressedSize = 0
           /\ \A r \in onReturns :
                  /\ r.bytes = MessageCtor(payload, msgType)
                  /\ r.bytes[1] \div 4 = 0
                  /\ offReturns \subseteq {r.bytes}

\* a manifests message of exactly 70 bytes, asked for both ways
C24_Witness ==
    /\ Len(payload) = 70
    /\ msgType = mtMANIFESTS
    /\ onReturns # {}
    /\ offReturns # {}
    /\ alreadyRequested_

\* C25: the uncompressed buffer of a Message is never modified after
\* construction: getBuffer(Compressed::Off) returns the same bytes before,
\* during and after any getBuffer(Compressed::On) calls, whether or not
\* compression succeeded.
C25_PlainBufferFixed ==
    /\ buffer_ = setHeader(Len(payload), msgType, FALSE, Algorithm_None) \o payload
    /\ offReturns \subseteq {setHeader(Len(payload), msgType, FALSE, Algorithm_None)
                              \o payload}

\* getBuffer(Compressed::Off) returned while another thread was inside
\* compress(), and compression then failed to save or to run
C25_Witness ==
    /\ offReturns # {}
    /\ \E t \in Threads : pc[t] = "tail"
    /\ fault

\* C26: every buffer returned by getBuffer, compressed or not, starts with a
\* header that parseMessageHeader accepts and whose payload size field equals
\* the length of the buffer minus 6.
C26_ReturnedBuffersFramed ==
    \A b \in {r.bytes : r \in onReturns} \cup offReturns :
        /\ Len(b) >= headerBytes
        /\ HeaderOf(b).ok
        /\ HeaderOf(b).payload_wire_size = Len(b) - headerBytes

\* compress() has finished and kept a compressed buffer
CompressedProduced == alreadyRequested_ /\ bufferCompressed_ # <<>>

\* C27: whenever Message produces a compressed buffer, byte 0 of its header
\* has the top six bits equal to 0x90 (compressed, algorithm 1, reserved bits
\* 0) and bytes 4..5 are the message type stored in the header of the
\* uncompressed buffer.
C27_CompressedHeaderBits ==
    CompressedProduced =>
        /\ Len(bufferCompressed_) >= headerBytes
        /\ bufferCompressed_[1] - (bufferCompressed_[1] % 4) = 144
        /\ bufferCompressed_[5] = buffer_[5]
        /\ bufferCompressed_[6] = buffer_[6]

\* a validator list whose compressed form was kept
C27_Witness ==
    /\ CompressedProduced
    /\ msgType = mtVALIDATORLIST
    /\ Len(bufferCompressed_) < Len(buffer_)
    /\ bufferCompressed_[6] = mtVALIDATORLIST

(***************************************************************************)
(* Claims about empty payloads, frames back to back and declared sizes      *)
(***************************************************************************)
\* C28: a frame whose header declares payload_size = 0 with a known type is
\* accepted: invokeProtocolMessage parses an empty payload, calls the handler
\* and returns consumed = 6, leaving the bytes after the header unconsumed.
C28_EmptyPayloadDelivered ==
    (/\ phase = "invoked"
     /\ Len(Wire) >= headerBytes
     /\ ValidFirstByte(Wire[1])
     /\ DeclaredPayloadSize(Wire) = 0
     /\ DeclaredType(Wire) \in RoutedTypes) =>
        /\ result = NoError(headerBytes)
        /\ callbacks = Delivered(DeclaredType(Wire), <<>>, 0)

\* the bytes after the first frame of w
AfterFirstFrame(w) == Drop(w, headerBytes + DeclaredPayloadSize(w))

\* the payload the first frame of w carries: its payload region, or what the
\* region decompresses to
CarriedPayloads(w) ==
    IF w[1] < 128 THEN {PayloadRegion(w)}
    ELSE {q \in FramePayloads :
            PayloadRegion(w) =
                write_varint(SizeT(Len(q)))
                \o LZ4F_compressFrame(LZ4F_compressFrameBound(Len(q)), q).frame}

\* C29: when the buffer holds two or more complete frames back to back, one
\* call of invokeProtocolMessage delivers only the first frame, parsed from
\* exactly the bytes [6, 6 + payload_size) of that frame, and returns consumed
\* equal to the size of the first frame; this holds again for each call on the
\* bytes that remain, so the frames are delivered in arrival order.
C29_FirstFrameOnly ==
    (/\ phase = "invoked"
     /\ CompleteFrame(Wire)
     /\ CompleteFrame(AfterFirstFrame(Wire))
     /\ DeclaredType(Wire) \in RoutedTypes
     /\ ~PayloadRejected(Wire)) =>
        /\ result = NoError(headerBytes + DeclaredPayloadSize(Wire))
        /\ \A q \in CarriedPayloads(Wire) :
               callbacks = Delivered(DeclaredType(Wire), q,
                                     DeclaredPayloadSize(Wire))

\* C30: lz4fDecompress succeeds only if the LZ4 frame decompresses to exactly
\* the number of bytes the varint prefix declares: it fails when the frame
\* yields fewer bytes than declared and when it would yield more.
C30_DeclaredSizeExact ==
    \A q \in ForgedPayloads :
        \A d \in DeclaredSizes(Len(q)) :
            (phase = "decoded" /\ Flatten(bufs) = ForgedFrame(q, d)
                /\ d # Len(q)) => ~decoded.ok

(***************************************************************************)
(* Claims about failed decompression and the decompression loop             *)
(***************************************************************************)
\* compression::decompress fails on the payload region of the compressed
\* frame w, called as invoke calls it
DecompressionFails(w) ==
    LET region == Drop(w, headerBytes)
    IN  decompress(ZeroCopyInputStream(IF region = <<>> THEN <<>> ELSE <<region>>),
                   DeclaredPayloadSize(w), (w[1] \div 16) % 8, lz4MaxIn).threw

\* C31: if decompression of a compressed frame fails (LZ4 error, bad varint
\* prefix, size mismatch or unknown algorithm), invokeProtocolMessage reports
\* the bad_message error for that frame and makes no handler callback: a
\* failed decompression is never delivered as a parsed (empty) message.
C31_FailedDecompressionIsBadMessage ==
    (/\ phase = "invoked"
     /\ CompleteFrame(Wire)
     /\ Wire[1] >= 128
     /\ DeclaredType(Wire) \in RoutedTypes
     /\ DecompressionFails(Wire)) =>
        /\ result.error = "bad_message"
        /\ callbacks = <<>>

\* getOriginalSize returned inside the lz4fDecompress call made
SizeKnown == lz4Phase = "decompressed" /\ lz4Call.bfCalled

\* the bytes of the stream from its cursor on entry to lz4fDecompress
EntryBytes == StreamRest(lz4Args.in)

\* the length of the varint at the head of bytes: up to its first byte
\* without the continuation bit
PrefixLen(bytes) ==
    CHOOSE n \in 1..Len(bytes) :
        bytes[n] < 128 /\ \A i \in 1..(n - 1) : bytes[i] >= 128

IsPrefix(a, b) == Len(a) <= Len(b) /\ a = Take(b, Len(a))

\* C32: after getOriginalSize returns, the cursor of the input stream is
\* exactly originalSizeBytes past where it was on entry, at the first byte of
\* the LZ4 frame, for every segmentation of the input: also when the varint
\* or the five bytes peeked span several chunks and when the first chunk is
\* shorter than five bytes.
C32_CursorAfterPrefix ==
    SizeKnown =>
        /\ lz4Call.originalSizeBytes = PrefixLen(EntryBytes)
        /\ StreamRest(lz4Call.start)
               = Drop(EntryBytes, lz4Call.originalSizeBytes)

\* a two-byte varint whose bytes come in two chunks of one byte each
C32_Witness ==
    /\ SizeKnown
    /\ lz4Call.originalSizeBytes = 2
    /\ Len(lz4Args.in.bufs) = 3
    /\ Len(lz4Args.in.pos) = 1
    /\ Len(lz4Args.in.bufs[2]) = 1
    /\ ~lz4Call.threw

\* the bytes of the stream, counted from the cursor on entry, that have been
\* read once the i-th chunk is handed to the decoder
ReadUpTo(i) ==
    lz4Call.originalSizeBytes
    + Len(Flatten(SubSeq(lz4Call.fed, 1, i - 1)))
    + Len(lz4Call.handed[i])

\* C33: during lz4fDecompress with the size cap inSize, the bytes read from
\* the stream for this frame (the varint prefix and every byte handed to the
\* LZ4 decoder) never extend beyond the first inSize bytes of the payload
\* region, also when the stream holds bytes of a following message.
C33_ReadsWithinCap ==
    SizeKnown =>
        \A i \in 1..Len(lz4Call.handed) : ReadUpTo(i) <= lz4Args.inSize

\* C34: across all iterations of the lz4fDecompress loop, for any chunking of
\* the input and any number of bytes (at least one) the decoder consumes per
\* call, the byte ranges the decoder consumed, joined, are a prefix of the
\* LZ4 frame bytes in their order: no byte is dropped, duplicated or moved
\* when unconsumed tails are kept in the residual buffer and joined with the
\* next chunk.
C34_ConsumedInOrder ==
    SizeKnown =>
        IsPrefix(Flatten(lz4Call.fed),
                 Drop(EntryBytes, lz4Call.originalSizeBytes))

\* a tail the decoder left was joined with the next chunk of the stream, and
\* the call succeeded
C34_Witness ==
    /\ SizeKnown
    /\ ~lz4Call.threw
    /\ \E i \in 2..Len(lz4Call.handed) :
          /\ Len(lz4Call.fed[i - 1]) < Len(lz4Call.handed[i - 1])
          /\ Len(lz4Call.handed[i])
                > Len(lz4Call.handed[i - 1]) - Len(lz4Call.fed[i - 1])

\* C35: every call of lz4fDecompress that creates a decoder context frees it
\* before the call ends, on the success path and on every failure path
\* (missing or invalid varint prefix, LZ4 error, zero bytes consumed,
\* insufficient input).
C35_ContextFreed ==
    (lz4Phase = "decompressed" /\ lz4Call.created) => lz4Call.freed

\* C36: lz4fDecompress terminates for every finite input stream, declared
\* size and decoder behaviour: each loop iteration either fails or consumes
\* at least one compressed byte, so there are no more iterations than bytes
\* in the stream, and the call ends in a returned size or a failure, also
\* when the source is exhausted or the size cap reaches 0 before the declared
\* size is produced.
C36_LoopTerminates ==
    lz4Phase = "decompressed" =>
        /\ \A i \in 1..Len(lz4Call.fed) :
              lz4Call.fed[i] = <<>> =>
                  i = Len(lz4Call.fed) /\ lz4Call.loopThrew
        /\ lz4Call.iter <= Len(EntryBytes)
        /\ lz4Call.threw \/ lz4Call.size = Len(lz4Call.out)

\* the size cap reached 0 before the declared size was produced: the next
\* iteration consumed nothing and failed
C36_Witness ==
    /\ SizeKnown
    /\ lz4Call.loopThrew
    /\ Len(lz4Call.fed) >= 2
    /\ lz4Call.fed[Len(lz4Call.fed)] = <<>>
    /\ Len(Flatten(lz4Call.fed)) = lz4Args.inSize
    /\ lz4Args.inSize < Len(lz4Args.region)

\* the bytes write_varint takes for a value below 2^31: its base-127 digits
RECURSIVE VarintBytesOf(_)
VarintBytesOf(n) == IF n < 127 THEN 1 ELSE 1 + VarintBytesOf(n \div 127)

\* C37: for every input of length n <= 2^32 - 1, lz4fCompress calls the
\* buffer factory exactly once, with size = (varint bytes of n) +
\* LZ4F_compressFrameBound(n), and returns (varint bytes) + (LZ4 frame size);
\* for n > 2^32 - 1 it fails without calling the buffer factory.
C37_CompressFactoryOnce ==
    lz4Phase = "compressed" =>
        IF LimbLe(lz4Args.inSize, UINT32_MAX)
        THEN LET n == Len(lz4Args.in)
                 frame == Drop(lz4Call.data, VarintBytesOf(n))
             IN  /\ ~lz4Call.threw
                 /\ lz4Call.bfCalled
                 /\ lz4Call.bfSize = VarintBytesOf(n) + LZ4F_compressFrameBound(n)
                 /\ Take(frame, Len(LZ4F_MAGIC)) = LZ4F_MAGIC
                 /\ frame[Len(frame)] = LZ4F_ENDMARK
                 /\ lz4Call.size = VarintBytesOf(n) + Len(frame)
        ELSE lz4Call.threw /\ ~lz4Call.bfCalled

\* an input whose size takes two varint bytes
C37_Witness ==
    /\ lz4Phase = "compressed"
    /\ Len(lz4Args.in) = 130
    /\ lz4Call.bfCalled
    /\ lz4Call.size = 2 + Len(LZ4F_MAGIC) + 5

\* C38: the size lz4fDecompress passes to the buffer factory never exceeds
\* 2^32 - 1: a varint prefix that decodes to a larger value is rejected
\* before any output buffer is requested.
C38_FactorySizeFits ==
    SizeKnown => LimbLe(lz4Call.bfSize, UINT32_MAX)

(***************************************************************************)
(* Claims about the size limit and a buffer that starts with no header      *)
(***************************************************************************)
\* C39: for every 6-byte input parseMessageHeader accepts, the payload size
\* parsed is at most 0x03FFFFFF (2^26 - 1), which is below the limit of
\* 64 MiB; so invokeProtocolMessage gives the message_size error for no input.
C39_SizeBelowLimit ==
    /\ MaxPayloadSize < megabytes64
    /\ phase = "invoked" =>
          /\ result.error # "message_size"
          /\ (Len(Wire) >= headerBytes /\ ValidFirstByte(Wire[1])) =>
                parseMessageHeader(bufs, buffer_size(bufs)).payload_wire_size
                    <= MaxPayloadSize

\* a header whose size field is all ones, behind a first byte of all ones
C39_Witness ==
    /\ phase = "invoked"
    /\ Len(Wire) >= headerBytes
    /\ Wire[1] = 255
    /\ DeclaredPayloadSize(Wire) = MaxPayloadSize
    /\ result = NoError(0)

\* the byte at the front of the buffer starts no header
FrontInvalid == Len(Wire) >= 1 /\ ~ValidFirstByte(Wire[1])

\* C40: if the byte at the front of a connection's buffer has the compressed
\* bit clear and one of bits 6..2 set, then every later call of
\* invokeProtocolMessage on that buffer, however many bytes are appended
\* behind it, returns consumed = 0 with no error: the stream never advances
\* and the demux never reports an error for it.
C40_InvalidFrontNeverAdvances ==
    [](FrontInvalid =>
         [](/\ FrontInvalid
            /\ phase = "invoked" => (result = NoError(0) /\ callbacks = <<>>)))

\* a whole frame was appended behind an invalid first byte, and the call
\* consumed nothing
C40_Witness ==
    /\ FrontInvalid
    /\ phase = "invoked"
    /\ Len(bufs) >= 3
    /\ Len(Wire) >= 2 * headerBytes
    /\ result = NoError(0)

=============================================================================
